---- MODULE Spec2Model ----
(***************************************************************************)
(* Velvet-Air-Scraper: src/scraper.py.                                     *)
(*                                                                         *)
(* Text is modelled as a sequence of one-character strings, so that the    *)
(* regular expressions and string operations of the source are computed    *)
(* character by character.  An optional value (Python None or a value) is  *)
(* a sequence of length 0 or 1.                                            *)
(***************************************************************************)
EXTENDS Integers, Sequences, FiniteSets, TLC

None == <<>>
Some(x) == <<x>>
IsNone(o) == o = <<>>
Val(o) == o[1]

(***************************************************************************)
(* Characters                                                              *)
(***************************************************************************)
Digits == {"0", "1", "2", "3", "4", "5", "6", "7", "8", "9"}

DigitVal(c) ==
  CASE c = "0" -> 0 [] c = "1" -> 1 [] c = "2" -> 2 [] c = "3" -> 3
    [] c = "4" -> 4 [] c = "5" -> 5 [] c = "6" -> 6 [] c = "7" -> 7
    [] c = "8" -> 8 [] c = "9" -> 9

\* \s of the re module, restricted to the whitespace of the modelled texts
IsSpace(c) == c \in {" ", "\t", "\n"}

UpperSeq ==
  <<"A", "B", "C", "D", "E", "F", "G", "H", "I", "J", "K", "L", "M",
    "N", "O", "P", "Q", "R", "S", "T", "U", "V", "W", "X", "Y", "Z">>
LowerSeq ==
  <<"a", "b", "c", "d", "e", "f", "g", "h", "i", "j", "k", "l", "m",
    "n", "o", "p", "q", "r", "s", "t", "u", "v", "w", "x", "y", "z">>

\* str.lower() on one character
LowerChar(c) ==
  IF \E i \in 1..26 : UpperSeq[i] = c
    THEN LowerSeq[CHOOSE i \in 1..26 : UpperSeq[i] = c]
    ELSE c

\* str.lower()
Lower(s) == [i \in 1..Len(s) |-> LowerChar(s[i])]

(***************************************************************************)
(* Generic string operations                                               *)
(***************************************************************************)
\* s[i:] (1-based, inclusive)
From(s, i) == SubSeq(s, i, Len(s))

\* sub occurs in s at position i
MatchAt(s, sub, i) ==
  /\ i >= 1
  /\ i + Len(sub) - 1 <= Len(s)
  /\ SubSeq(s, i, i + Len(sub) - 1) = sub

\* Python "sub in s"
Contains(s, sub) == \E i \in 1..(Len(s) + 1) : MatchAt(s, sub, i)

\* position of the first occurrence of sub in s at or after start, 0 if none
FindFrom(s, sub, start) ==
  IF \E i \in start..(Len(s) + 1) : MatchAt(s, sub, i)
    THEN CHOOSE i \in start..(Len(s) + 1) :
           /\ MatchAt(s, sub, i)
           /\ \A j \in start..(i - 1) : ~MatchAt(s, sub, j)
    ELSE 0

\* str.strip()
Strip(s) ==
  IF \A i \in 1..Len(s) : IsSpace(s[i])
    THEN <<>>
    ELSE LET a == CHOOSE i \in 1..Len(s) :
                    ~IsSpace(s[i]) /\ \A j \in 1..(i - 1) : IsSpace(s[j])
             b == CHOOSE i \in 1..Len(s) :
                    ~IsSpace(s[i]) /\ \A j \in (i + 1)..Len(s) : IsSpace(s[j])
         IN SubSeq(s, a, b)

\* str.split(sep) for a non-empty separator
RECURSIVE SplitOn(_, _)
SplitOn(s, sep) ==
  LET p == FindFrom(s, sep, 1)
  IN IF p = 0
       THEN <<s>>
       ELSE <<SubSeq(s, 1, p - 1)>> \o SplitOn(From(s, p + Len(sep)), sep)

\* the elements of a sequence that satisfy a test, in order
RECURSIVE NonEmptyStripped(_)
NonEmptyStripped(parts) ==
  IF parts = <<>>
    THEN <<>>
    ELSE LET h == Strip(Head(parts))
         IN (IF h = <<>> THEN <<>> ELSE <<h>>) \o NonEmptyStripped(Tail(parts))

\* int() of a run of decimal digits
RECURSIVE DigitsToInt(_)
DigitsToInt(ds) ==
  IF ds = <<>>
    THEN 0
    ELSE 10 * DigitsToInt(SubSeq(ds, 1, Len(ds) - 1)) + DigitVal(ds[Len(ds)])

(***************************************************************************)
(* clean_price: scraper.py 24-30.  The float is represented exactly as     *)
(* <<mantissa, scale>>, value mantissa / 10^scale, in lowest form.         *)
(***************************************************************************)
RECURSIVE Normalize(_, _)
Normalize(m, e) ==
  IF e > 0 /\ m % 10 = 0 THEN Normalize(m \div 10, e - 1) ELSE <<m, e>>

\* mutant: the decimal point is deleted with the other characters
KeepDigits(s) == SelectSeq(s, LAMBDA c : c \in Digits)

\* re.sub(r'[^\d.]', '', price_str)
KeepDigitsAndDots(s) == SelectSeq(s, LAMBDA c : c \in Digits \/ c = ".")

\* float(clean): Some(value), or None where float() raises ValueError
ParseFloat(clean) ==
  LET dots == SelectSeq(clean, LAMBDA c : c = ".")
      digs == SelectSeq(clean, LAMBDA c : c \in Digits)
  IN IF Len(dots) > 1 \/ digs = <<>>
       THEN None
       ELSE LET p == FindFrom(clean, <<".">>, 1)
                scale == IF p = 0 THEN 0 ELSE Len(clean) - p
            IN Some(Normalize(DigitsToInt(digs), scale))

clean_price(price_str) ==
  IF price_str = <<>>
    THEN None
    ELSE ParseFloat(KeepDigitsAndDots(price_str))

(***************************************************************************)
(* clean_seats: scraper.py 32-37                                           *)
(***************************************************************************)
\* mutant: the first digit alone
FirstDigit(s) ==
  IF \A i \in 1..Len(s) : s[i] \notin Digits
    THEN <<>>
    ELSE LET a == CHOOSE i \in 1..Len(s) :
                    s[i] \in Digits /\ \A j \in 1..(i - 1) : s[j] \notin Digits
         IN <<s[a]>>

\* re.findall(r'\d+', s)[0]: the leftmost maximal run of digits, <<>> if none
FirstDigitRun(s) ==
  IF \A i \in 1..Len(s) : s[i] \notin Digits
    THEN <<>>
    ELSE LET a == CHOOSE i \in 1..Len(s) :
                    s[i] \in Digits /\ \A j \in 1..(i - 1) : s[j] \notin Digits
             b == CHOOSE i \in a..Len(s) :
                    /\ \A j \in a..i : s[j] \in Digits
                    /\ (i = Len(s) \/ s[i + 1] \notin Digits)
         IN SubSeq(s, a, b)

clean_seats(seats_str) ==
  IF seats_str = <<>>
    THEN 0
    ELSE LET numbers == FirstDigitRun(seats_str)
         IN IF numbers # <<>> THEN DigitsToInt(numbers) ELSE 0

(***************************************************************************)
(* split_route: scraper.py 40-72.  The characters en dash, em dash and     *)
(* right arrow are written "ndash", "mdash" and "rarr".                    *)
(***************************************************************************)
\* a match of \s+to\s+ (IGNORECASE) whose "to" stands at position j
ToAt(s, j) ==
  /\ j >= 2
  /\ j + 2 <= Len(s)
  /\ IsSpace(s[j - 1])
  /\ LowerChar(s[j]) = "t"
  /\ LowerChar(s[j + 1]) = "o"
  /\ IsSpace(s[j + 2])

\* mutant: the word "to" is never looked for
HasToNever(s) == FALSE

\* re.search(r"\s+to\s+", txt, flags=re.IGNORECASE)
HasTo(s) == \E j \in 1..Len(s) : ToAt(s, j)

\* re.split(r"\s+to\s+", txt, maxsplit=1), each part stripped
SplitTo(s) ==
  LET j == CHOOSE k \in 1..Len(s) :
             ToAt(s, k) /\ \A m \in 1..(k - 1) : ~ToAt(s, m)
  IN <<Strip(SubSeq(s, 1, j - 1)), Strip(From(s, j + 2))>>

Separators ==
  << <<" ", "-", " ">>, <<" ", "ndash", " ">>, <<" ", "mdash", " ">>,
     <<"-", ">">>, <<"rarr">> >>

\* the loop over the separators, from the k-th on
RECURSIVE SplitSep(_, _)
SplitSep(txt, k) ==
  IF k > Len(Separators)
    THEN <<txt, txt>>
    ELSE LET sep == Separators[k]
             parts == NonEmptyStripped(SplitOn(txt, sep))
         IN IF Contains(txt, sep) /\ Len(parts) >= 2
              THEN <<parts[1], parts[Len(parts)]>>
              ELSE SplitSep(txt, k + 1)

split_route(route_str) ==
  IF route_str = <<>>
    THEN << <<>>, <<>> >>
    ELSE LET txt == Strip(route_str)
         IN IF HasTo(txt) THEN SplitTo(txt) ELSE SplitSep(txt, 1)

(***************************************************************************)
(* _strip_html: scraper.py 129-131                                         *)
(***************************************************************************)
\* re.sub(r"<.*?>", "", text, flags=re.S)
RECURSIVE RemoveTags(_)
RemoveTags(s) ==
  LET a == FindFrom(s, <<"<">>, 1)
      b == IF a = 0 THEN 0 ELSE FindFrom(s, <<">">>, a + 1)
  IN IF a = 0 \/ b = 0
       THEN s
       ELSE SubSeq(s, 1, a - 1) \o RemoveTags(From(s, b + 1))

strip_html(text) == Strip(RemoveTags(text))

(***************************************************************************)
(* html.unescape: scraper.py 245, on decimal character references and      *)
(* &amp;                                                                    *)
(***************************************************************************)
\* chr(n) for the character references of the modelled texts
Chr(n) ==
  CASE n = 36 -> "$"
    [] n = 38 -> "&"
    [] n = 47 -> "/"
    [] OTHER -> "?"

Amp == <<"&", "a", "m", "p", ";">>

RECURSIVE Unescape(_)
Unescape(s) ==
  IF s = <<>>
    THEN <<>>
    ELSE IF MatchAt(s, Amp, 1)
           THEN <<"&">> \o Unescape(From(s, Len(Amp) + 1))
           ELSE IF MatchAt(s, <<"&", "#">>, 1)
                     /\ FirstDigitRun(From(s, 3)) # <<>>
                     /\ s[3] \in Digits
                  THEN LET ds == FirstDigitRun(From(s, 3))
                           rest == From(s, 3 + Len(ds))
                       IN <<Chr(DigitsToInt(ds))>>
                            \o Unescape(IF rest # <<>> /\ rest[1] = ";"
                                          THEN Tail(rest)
                                          ELSE rest)
                  ELSE <<s[1]>> \o Unescape(Tail(s))

(***************************************************************************)
(* Texts of the modelled runs                                              *)
(***************************************************************************)
BarkAir == <<"B", "a", "r", "k", " ", "A", "i", "r">>
K9Jets == <<"K", "9", " ", "J", "e", "t", "s">>
GulfstreamG5 == <<"G", "u", "l", "f", "s", "t", "r", "e", "a", "m", " ", "G", "5">>
Unknown == <<"U", "n", "k", "n", "o", "w", "n">>
UnknownRoute ==
  <<"U", "n", "k", "n", "o", "w", "n", " ", "R", "o", "u", "t", "e">>
Pegasus == <<"P", "e", "g">>

London == <<"L", "o", "n", "d", "o", "n">>
Paris == <<"P", "a", "r", "i", "s">>

Date_Jan5 == <<"1", "/", "5", "/", "2", "5">>
Date_Jan5Long == <<"J", "a", "n", " ", "5", " ", "2", "0", "2", "5">>
Date_Jan6 == <<"1", "/", "6", "/", "2", "5">>
Date_TBD == <<"T", "B", "D">>
Date_xJan5 == <<"x", "_", "1", "/", "5", "/", "2", "5">>
Iso_Jan5 == <<"2", "0", "2", "5", "-", "0", "1", "-", "0", "5">>
Iso_Jan6 == <<"2", "0", "2", "5", "-", "0", "1", "-", "0", "6">>

Time_2PM == <<"2", " ", "P", "M">>
Iso_2PM == <<"1", "4", ":", "0", "0", ":", "0", "0">>

Route_AtoB == <<"A", " ", "t", "o", " ", "B">>
Route_AtoBx == <<"A", " ", "t", "o", " ", "B", "_", "x">>
Route_AdashB == <<"A", " ", "-", " ", "B">>
Route_LondonParis == London \o <<" ", "-", ">", " ">> \o Paris

(***************************************************************************)
(* dateutil.parser.parse followed by strftime, scraper.py 701-702 and      *)
(* 714-715, on the texts of the modelled runs: Some(formatted value), or   *)
(* None where parse raises.                                                *)
(***************************************************************************)
\* mutant: a text that does not parse is kept as the date
ParseDateOrRaw(text) ==
  CASE text = Date_Jan5 -> Some(Iso_Jan5)
    [] text = Date_Jan5Long -> Some(Iso_Jan5)
    [] text = Date_Jan6 -> Some(Iso_Jan6)
    [] OTHER -> Some(text)

ParseDate(text) ==
  CASE text = Date_Jan5 -> Some(Iso_Jan5)
    [] text = Date_Jan5Long -> Some(Iso_Jan5)
    [] text = Date_Jan6 -> Some(Iso_Jan6)
    [] OTHER -> None

ParseTime(text) ==
  CASE text = Time_2PM -> Some(Iso_2PM)
    [] OTHER -> None

(***************************************************************************)
(* Bounds                                                                  *)
(***************************************************************************)
MaxRuns == 2
MaxBatch == 2
MaxFaults == 1

VARIABLES
  pc,           \* position of the run
  run,          \* number of the current run
  flights,      \* table flights: a set of rows
  snapshots,    \* table flight_snapshots: rows in insertion order
  nextId,       \* the next id the data store assigns to a new Flight
  data,         \* save_to_supabase: parameter data
  clean_data,   \* save_to_supabase: the deduplicated list
  idx,          \* save_to_supabase: position of the loop in clean_data
  flight_id,    \* save_to_supabase: local flight_id (None while unbound)
  faults,       \* number of failures the environment has injected
  bark_data,    \* scrape_bark_air: all_flights
  unit,         \* position of the loop of the strategy that is running
  origins,      \* the origin options the running K9 strategy found
  pending,      \* scrape_k9_jets_http: flights of the page not yet handled
  http_flights, \* scrape_k9_jets_http: all_flights
  http_seen,    \* scrape_k9_jets_http: seen_keys
  ajax_flights, \* scrape_k9_jets_ajax: all_flights
  ajax_seen,    \* scrape_k9_jets_ajax: seen_flights
  fallback_flights, \* scrape_k9_jets_fallback: all_flights
  k9_data,      \* main: k9_data
  served,       \* number of cards the sites have served in this run
  ran,          \* history: the strategies that have been started
  snaps0,       \* history: Len(snapshots) when the current run began
  storeOK,      \* history: no data-store call of the current run has failed
  persisted,    \* history: positions of clean_data that got a Snapshot
  last,         \* history: what the last step of the save loop did
  prev,         \* history: the previous run
  arg,          \* TextNormalizer: the argument of the call
  ret,          \* TextNormalizer: the call and what it returned
  env,          \* the environment: SUPABASE_URL and SUPABASE_KEY
  scrolls,      \* scrape_k9_jets_fallback: iterations of the scroll loop begun
  previous_count,  \* scrape_k9_jets_fallback: previous_count
  no_change_count, \* scrape_k9_jets_fallback: no_change_count
  observed      \* history: the card counts the scroll loop has read

scrapeVars ==
  <<bark_data, unit, origins, pending, http_flights, http_seen, ajax_flights,
    ajax_seen, fallback_flights, k9_data, served, ran>>

storeVars == <<flights, snapshots, nextId>>

saveVars ==
  <<data, clean_data, idx, flight_id, snaps0, storeOK, persisted, last, prev>>

normVars == <<arg, ret>>

cfgVars == <<env>>

scrollVars == <<scrolls, previous_count, no_change_count, observed>>

vars ==
  <<pc, run, faults, scrapeVars, storeVars, saveVars, normVars, cfgVars,
    scrollVars>>

(***************************************************************************)
(* Module configuration: scraper.py 13-22                                  *)
(***************************************************************************)
Text_Url == <<"u", "r", "l">>
Text_Key == <<"k", "e", "y">>

\* lines 16-17: os.getenv gives None for a variable that is not set
Environments ==
  [SUPABASE_URL : {None, Some(<<>>), Some(Text_Url)},
   SUPABASE_KEY : {None, Some(<<>>), Some(Text_Key)}]

Configured == [SUPABASE_URL |-> Some(Text_Url), SUPABASE_KEY |-> Some(Text_Key)]

\* the truth value of an optional text: None and "" are false
Truthy(v) == ~IsNone(v) /\ Val(v) # <<>>

CredentialsFoundUrlOnly(e) == Truthy(e.SUPABASE_URL)

\* line 19, negated
CredentialsFound(e) == Truthy(e.SUPABASE_URL) /\ Truthy(e.SUPABASE_KEY)

\* the scroll loop of scrape_k9_jets_fallback has not begun
NotScrolling ==
  /\ scrolls = 0
  /\ previous_count = 0
  /\ no_change_count = 0
  /\ observed = <<>>

\* lines 19-20: the import of the module raises ValueError
ImportFails ==
  /\ pc = "import"
  /\ ~CredentialsFound(env)
  /\ pc' = "raised"
  /\ UNCHANGED <<run, faults, scrapeVars, storeVars, saveVars, normVars,
                 cfgVars, scrollVars>>

\* lines 22 and 767-768, main lines 754-758: the client is made, main starts
\* and calls scrape_bark_air
Import ==
  /\ pc = "import"
  /\ CredentialsFound(env)
  /\ pc' = "bark"
  /\ ran' = ran \cup {"bark"}
  /\ UNCHANGED <<run, faults, bark_data, unit, origins, pending, http_flights,
                 http_seen, ajax_flights, ajax_seen, fallback_flights,
                 k9_data, served, storeVars, saveVars, normVars, cfgVars,
                 scrollVars>>

\* no call of a normalizer has returned
NoCall == [fn |-> "none", value |-> None]

(***************************************************************************)
(* save_to_supabase: scraper.py 686-751                                    *)
(***************************************************************************)
\* signature = f"{item['competitor']}_{item['route']}_{item['date']}"
Signature(item) ==
  item.competitor \o <<"_">> \o item.route \o <<"_">> \o item.date

\* unique_data[signature] = item, for one item: a dict keeps the position of
\* the first insertion of a key and the value of the last
DictSet(d, sig, item) ==
  IF \E i \in 1..Len(d) : d[i].sig = sig
    THEN [i \in 1..Len(d) |->
            IF d[i].sig = sig THEN [sig |-> sig, item |-> item] ELSE d[i]]
    ELSE Append(d, [sig |-> sig, item |-> item])

RECURSIVE UniqueData(_, _)
UniqueData(d, items) ==
  IF items = <<>>
    THEN d
    ELSE UniqueData(DictSet(d, Signature(Head(items)), Head(items)), Tail(items))

\* clean_data = list(unique_data.values())
Deduplicate(items) ==
  LET d == UniqueData(<<>>, items)
  IN [i \in 1..Len(d) |-> d[i].item]

\* clean_time, lines 709-718
CleanTime(item) ==
  IF IsNone(item.departure_time) \/ Val(item.departure_time) = <<>>
    THEN None
    ELSE ParseTime(Val(item.departure_time))

\* flight_payload, lines 721-730
FlightPayload(item, clean_date) ==
  LET od == split_route(item.route)
  IN [competitor |-> item.competitor,
      origin |-> od[1],
      destination |-> od[2],
      departure_date |-> clean_date,
      departure_time |-> CleanTime(item),
      operator |-> item.operator]

\* the conflict target of the upsert: competitor,origin,destination,departure_date
FlightKey(r) == <<r.competitor, r.origin, r.destination, r.departure_date>>

\* mutant: the upsert never finds the row it conflicts with
ConflictingNever(table, payload) == {}

\* the row of the table flights with the key of the payload
Conflicting(table, payload) ==
  {r \in table : FlightKey(r) = FlightKey(payload)}

\* the row as the data store holds it after the upsert
UpsertedRow(table, payload, id) ==
  [id |-> IF Conflicting(table, payload) = {}
            THEN id
            ELSE (CHOOSE r \in Conflicting(table, payload) : TRUE).id,
   competitor |-> payload.competitor,
   origin |-> payload.origin,
   destination |-> payload.destination,
   departure_date |-> payload.departure_date,
   departure_time |-> payload.departure_time,
   operator |-> payload.operator]

\* supabase.table("flights").upsert(payload, on_conflict=...), lines 732-734
Upsert(table, payload, id) ==
  (table \ Conflicting(table, payload)) \cup {UpsertedRow(table, payload, id)}

\* status_val, lines 738-743
SnapshotStatus(item) ==
  IF item.competitor = K9Jets /\ IsNone(item.seats)
    THEN "Sold Out"
    ELSE item.status

\* snapshot_payload, lines 745-750
SnapshotPayload(item, fid) ==
  [flight_id |-> fid,
   price |-> item.price,
   seats_available |-> item.seats,
   status |-> SnapshotStatus(item)]

\* mutant: a Snapshot of the same Flight is overwritten
InsertOrReplace(table, row) ==
  IF \E i \in 1..Len(table) : table[i].flight_id = row.flight_id
    THEN [i \in 1..Len(table) |->
            IF table[i].flight_id = row.flight_id THEN row ELSE table[i]]
    ELSE Append(table, row)

\* supabase.table("flight_snapshots").insert(snapshot_payload), line 751
Insert(table, row) == Append(table, row)

NoStep == [kind |-> "none", item |-> None, returned |-> None, snap |-> None]

\* lines 687-696: deduplicate, then enter the loop
SaveBegin ==
  /\ pc = "save"
  /\ clean_data' = Deduplicate(data)
  /\ idx' = 1
  /\ flight_id' = None
  /\ persisted' = {}
  /\ last' = NoStep
  /\ pc' = "save_loop"
  /\ UNCHANGED <<run, flights, snapshots, nextId, data, faults, snaps0,
                 storeOK, prev, scrapeVars>>
  /\ UNCHANGED <<normVars, cfgVars, scrollVars>>

\* lines 699-706: the date does not parse, the row is skipped
SaveSkip ==
  /\ pc = "save_loop"
  /\ idx <= Len(clean_data)
  /\ IsNone(ParseDate(clean_data[idx].date))
  /\ idx' = idx + 1
  /\ last' = [kind |-> "skip", item |-> Some(clean_data[idx]),
              returned |-> None, snap |-> None]
  /\ UNCHANGED <<pc, run, flights, snapshots, nextId, data, clean_data,
                 flight_id, faults, snaps0, storeOK, persisted, prev,
                 scrapeVars>>
  /\ UNCHANGED <<normVars, cfgVars, scrollVars>>

\* lines 699-751 for a row whose date parses.  outcome is what the data
\* store does: "ok"; "upsert_raises" (execute() of line 734 raises);
\* "upsert_empty" (the upsert is applied and res.data is empty);
\* "insert_raises" (execute() of line 751 raises).
SaveRow(outcome) ==
  /\ pc = "save_loop"
  /\ idx <= Len(clean_data)
  /\ ~IsNone(ParseDate(clean_data[idx].date))
  /\ outcome # "ok" => faults < MaxFaults
  /\ LET item == clean_data[idx]
         payload == FlightPayload(item, Val(ParseDate(item.date)))
         row == UpsertedRow(flights, payload, nextId)
         returned == IF outcome \in {"ok", "insert_raises"}
                       THEN Some(row.id)
                       ELSE None
         \* lines 736-737
         fid == IF IsNone(returned) THEN flight_id ELSE returned
         \* line 746 reads flight_id: UnboundLocalError while it is unbound
         unbound == IsNone(fid)
         inserted == outcome \in {"ok", "upsert_empty"} /\ ~unbound
         snap == SnapshotPayload(item, Val(fid))
     IN /\ flights' = IF outcome = "upsert_raises"
                        THEN flights
                        ELSE Upsert(flights, payload, nextId)
        /\ nextId' = IF outcome # "upsert_raises" /\ row.id = nextId
                       THEN nextId + 1
                       ELSE nextId
        /\ flight_id' = IF outcome = "upsert_raises" THEN flight_id ELSE fid
        /\ snapshots' = IF inserted THEN Insert(snapshots, snap) ELSE snapshots
        /\ persisted' = IF inserted THEN persisted \cup {idx} ELSE persisted
        /\ idx' = IF inserted THEN idx + 1 ELSE idx
        /\ pc' = IF inserted THEN pc ELSE "crashed"
        /\ last' = [kind |-> outcome, item |-> Some(item),
                    returned |-> returned,
                    snap |-> IF inserted THEN Some(snap) ELSE None]
  /\ faults' = IF outcome = "ok" THEN faults ELSE faults + 1
  /\ storeOK' = (storeOK /\ outcome = "ok")
  /\ UNCHANGED <<run, data, clean_data, snaps0, prev, scrapeVars>>
  /\ UNCHANGED <<normVars, cfgVars, scrollVars>>

\* the loop is exhausted: save_to_supabase returns, main closes the browser
SaveEnd ==
  /\ pc = "save_loop"
  /\ idx > Len(clean_data)
  /\ pc' = "done"
  /\ UNCHANGED <<run, faults, scrapeVars, storeVars, saveVars>>
  /\ UNCHANGED <<normVars, cfgVars, scrollVars>>

Save ==
  \/ SaveBegin
  \/ SaveSkip
  \/ \E outcome \in {"ok", "upsert_raises", "upsert_empty", "insert_raises"} :
       SaveRow(outcome)
  \/ SaveEnd

(***************************************************************************)
(* Runs of save_to_supabase on arbitrary batches against one data store    *)
(***************************************************************************)
\* a listing of a batch: the dict of the scrapers, and two history fields:
\* src, the extractor that set seats and status, stock, the stock text it
\* read (None where the page had none), and refined, the list-view listing
\* and the product page of a refinement (None where there was none), and
\* fragments, the price fragments of the card the listing was read from
Listing(competitor, date, route, operator, price, seats, status, dtime) ==
  [competitor |-> competitor, date |-> date, route |-> route,
   operator |-> operator, price |-> price, seats |-> seats,
   status |-> status, departure_time |-> dtime, url |-> None,
   src |-> "batch", stock |-> None, refined |-> None, fragments |-> <<>>]

Price10 == Some(<<10, 0>>)
Price20 == Some(<<20, 0>>)

BatchListings ==
  { Listing(BarkAir, Date_Jan5, Route_LondonParis, GulfstreamG5,
            Price10, Some(3), "Available", None),
    Listing(BarkAir, Date_Jan5, Route_LondonParis, GulfstreamG5,
            Price20, Some(2), "Available", None),
    Listing(K9Jets, Date_Jan5Long, Route_AtoB, Pegasus,
            Price20, Some(5), "Available", Some(Time_2PM)),
    Listing(K9Jets, Date_Jan5, Route_AdashB, Unknown,
            None, None, "Available", None),
    Listing(K9Jets, Date_TBD, Route_AtoB, Unknown,
            Price10, Some(1), "Available", None),
    Listing(K9Jets, Date_Jan5, Route_AtoBx, Unknown,
            Price10, Some(1), "Available", None),
    Listing(K9Jets, Date_xJan5, Route_AtoB, Unknown,
            Price20, Some(1), "Available", None) }

SeqsUpTo(S, n) == UNION {[1..k -> S] : k \in 0..n}

Batches == SeqsUpTo(BatchListings, MaxBatch)

\* a data store that earlier runs have filled
UsedFlights ==
  {[id |-> 1, competitor |-> K9Jets, origin |-> <<"A">>,
    destination |-> <<"B">>, departure_date |-> Iso_Jan5,
    departure_time |-> None, operator |-> Unknown]}
UsedSnapshots ==
  <<[flight_id |-> 1, price |-> Price10, seats_available |-> None,
     status |-> "Sold Out"]>>

NoRun == [data |-> <<>>, ok |-> FALSE, snaps0 |-> 0]

SaveInit ==
  /\ pc = "save"
  /\ run = 1
  /\ \/ flights = {} /\ snapshots = <<>> /\ nextId = 1
     \/ flights = UsedFlights /\ snapshots = UsedSnapshots /\ nextId = 2
  /\ data \in Batches
  /\ clean_data = <<>>
  /\ idx = 1
  /\ flight_id = None
  /\ faults = 0
  /\ snaps0 = Len(snapshots)
  /\ storeOK = TRUE
  /\ persisted = {}
  /\ last = NoStep
  /\ bark_data = <<>>
  /\ unit = 1
  /\ origins = <<>>
  /\ pending = <<>>
  /\ http_flights = <<>>
  /\ http_seen = {}
  /\ ajax_flights = <<>>
  /\ ajax_seen = {}
  /\ fallback_flights = <<>>
  /\ k9_data = <<>>
  /\ served = 0
  /\ ran = {}
  /\ prev = NoRun
  /\ arg = <<>>
  /\ ret = NoCall
  /\ env = Configured
  /\ NotScrolling

\* the next run of the job, a new process on the same data store: the
\* source data is as before, or it is at most one listing
SaveAgain ==
  /\ pc \in {"done", "crashed"}
  /\ run < MaxRuns
  /\ run' = run + 1
  /\ data' \in {b \in Batches : b = data \/ Len(b) <= 1}
  /\ pc' = "save"
  /\ clean_data' = <<>>
  /\ idx' = 1
  /\ flight_id' = None
  /\ snaps0' = Len(snapshots)
  /\ storeOK' = TRUE
  /\ persisted' = {}
  /\ last' = NoStep
  /\ prev' = [data |-> data, ok |-> (pc = "done" /\ storeOK), snaps0 |-> snaps0]
  /\ UNCHANGED <<faults, scrapeVars, storeVars>>
  /\ UNCHANGED <<normVars, cfgVars, scrollVars>>

SaveNext == Save \/ SaveAgain

SaveSpec == SaveInit /\ [][SaveNext]_vars

(***************************************************************************)
(* The sites.  A page is the sequence of its cards; a card holds the text  *)
(* of each element the scrapers look for (None where the element is        *)
(* missing).  In one run the sites serve at most MaxCards cards.           *)
(***************************************************************************)
MaxCards == 2

Stock_3Seats == <<"3", " ", "S", "e", "a", "t", "s">>
Stock_2Seats == <<"2", " ", "S", "e", "a", "t", "s">>
Stock_5Seats == <<"5", " ", "S", "e", "a", "t", "s">>
Stock_SoldOut == <<"S", "o", "l", "d", " ", "O", "u", "t">>
Stock_InStock == <<"I", "n", " ", "S", "t", "o", "c", "k">>
Text_10 == <<"$", "1", "0">>
Text_20 == <<"$", "2", "0">>
Text_Entity10 == <<"&", "#", "3", "6", ";", "1", "0">>
Heading_Operator ==
  <<"O", "p", "e", "r", "a", "t", "o", "r", ":", " ", "P", "e", "g">>
Heading_Departure ==
  <<"D", "e", "p", "a", "r", "t", "u", "r", "e", " ", "T", "i", "m", "e", ":",
    " ", "2", " ", "P", "M">>
Url_1 == <<"/", "f", "l", "i", "g", "h", "t", "/", "1">>

\* cards of a Bark Air route page: .flight_box
BarkCards ==
  { [date |-> Some(Date_Jan5), price |-> Some(Text_10),
     seats |-> Some(Stock_3Seats), sold_out |-> FALSE, raises |-> FALSE],
    [date |-> Some(Date_Jan5), price |-> Some(Text_20),
     seats |-> Some(Stock_2Seats), sold_out |-> TRUE, raises |-> FALSE],
    [date |-> Some(Date_TBD), price |-> None,
     seats |-> None, sold_out |-> TRUE, raises |-> FALSE],
    [date |-> None, price |-> Some(Text_10),
     seats |-> Some(Stock_3Seats), sold_out |-> FALSE, raises |-> FALSE],
    [date |-> Some(Date_Jan6), price |-> Some(Text_10),
     seats |-> Some(Stock_3Seats), sold_out |-> FALSE, raises |-> TRUE] }

\* cards of the K9 routes page: article.elementor-post
K9Cards ==
  { [title |-> Some(Date_Jan5), desc |-> Some(Route_AtoB),
     prices |-> <<Text_10, Text_20>>, stock |-> Some(Stock_3Seats),
     headings |-> <<Heading_Operator, Heading_Departure>>,
     url |-> Some(Url_1)],
    [title |-> Some(Date_Jan5), desc |-> Some(Route_AtoB),
     prices |-> <<Text_20>>, stock |-> None,
     headings |-> <<>>, url |-> None],
    [title |-> Some(Date_Jan6), desc |-> None,
     prices |-> <<>>, stock |-> Some(Stock_SoldOut),
     headings |-> <<Heading_Operator>>, url |-> None],
    [title |-> None, desc |-> Some(Route_AtoB),
     prices |-> <<Text_10>>, stock |-> Some(Stock_3Seats),
     headings |-> <<>>, url |-> None] }

\* K9 product pages /flight/...
DetailPages ==
  { [prices |-> <<Text_10, Text_20>>, stock |-> Some(Stock_5Seats)],
    [prices |-> <<>>, stock |-> Some(Stock_InStock)],
    [prices |-> <<Text_10>>, stock |-> Some(Stock_SoldOut)],
    [prices |-> <<Text_20>>, stock |-> None],
    [prices |-> <<Text_Entity10>>, stock |-> Some(Stock_5Seats)] }

\* the options of select[name="pa_departure-location"]
Option_Placeholder ==
  [value |-> <<"0">>,
   label |-> <<"F", "l", "y", "i", "n", "g", " ", "f", "r", "o", "m">>]
Option_London == [value |-> <<"7">>, label |-> London]
Option_Paris == [value |-> <<"8">>, label |-> Paris]

OptionLists ==
  { <<>>, <<Option_Placeholder>>, <<Option_Placeholder, Option_London>>,
    <<Option_Placeholder, Option_London, Option_Paris>> }

\* the pages a site can still serve in this run
Pages(cards) == SeqsUpTo(cards, MaxCards - served)

(***************************************************************************)
(* scrape_bark_air: scraper.py 291-350                                     *)
(***************************************************************************)
\* cities, lines 294-298: two of the ten
Cities == <<London, Paris>>

\* the (origin, dest) pairs in the order of the loops of lines 302-304
BarkRoutes ==
  LET n == Len(Cities)
      pair(k) == <<((k - 1) \div n) + 1, ((k - 1) % n) + 1>>
      all == [k \in 1..(n * n) |-> pair(k)]
  IN SelectSeq(all, LAMBDA q : q[1] # q[2])

\* text of an element that may be missing: inner_text() ... else "0"
TextOr(opt, default) == IF IsNone(opt) THEN default ELSE Val(opt)

\* lines 321-345 for one card: the listings it adds to all_flights
BarkListing(card, origin, dest) ==
  IF card.raises \/ IsNone(card.date) \/ Val(card.date) = <<>>
    THEN <<>>
    ELSE LET price_text == TextOr(card.price, <<"0">>)
             seats_text == TextOr(card.seats, <<"0">>)
         IN << [competitor |-> BarkAir,
                date |-> Val(card.date),
                route |-> origin \o <<" ", "-", ">", " ">> \o dest,
                operator |-> GulfstreamG5,
                price |-> clean_price(price_text),
                seats |-> Some(clean_seats(seats_text)),
                status |-> IF card.sold_out THEN "Sold Out" ELSE "Available",
                departure_time |-> None,
                url |-> None,
                src |-> "bark",
                stock |-> card.seats,
                refined |-> None,
                fragments |-> <<>>] >>

RECURSIVE BarkListings(_, _, _)
BarkListings(cards, origin, dest) ==
  IF cards = <<>>
    THEN <<>>
    ELSE BarkListing(Head(cards), origin, dest)
           \o BarkListings(Tail(cards), origin, dest)

\* lines 311-347, one route: page.goto raises and the route is skipped
BarkRouteFails ==
  /\ pc = "bark"
  /\ unit <= Len(BarkRoutes)
  /\ faults < MaxFaults
  /\ faults' = faults + 1
  /\ unit' = unit + 1
  /\ UNCHANGED <<pc, run, bark_data, origins, pending, http_flights,
                 http_seen, ajax_flights, ajax_seen, fallback_flights,
                 k9_data, served, ran, storeVars, saveVars>>
  /\ UNCHANGED <<normVars, cfgVars, scrollVars>>

\* lines 311-345, one route: the page loads and its cards are read
BarkRoute ==
  /\ pc = "bark"
  /\ unit <= Len(BarkRoutes)
  /\ \E cards \in Pages(BarkCards) :
       /\ bark_data' =
            bark_data \o BarkListings(cards, Cities[BarkRoutes[unit][1]],
                                      Cities[BarkRoutes[unit][2]])
       /\ served' = served + Len(cards)
  /\ unit' = unit + 1
  /\ UNCHANGED <<pc, run, faults, origins, pending, http_flights, http_seen,
                 ajax_flights, ajax_seen, fallback_flights, k9_data, ran,
                 storeVars, saveVars>>
  /\ UNCHANGED <<normVars, cfgVars, scrollVars>>

\* line 350 and main line 760: scrape_bark_air returns, the HTTP strategy starts
BarkReturn ==
  /\ pc = "bark"
  /\ unit > Len(BarkRoutes)
  /\ pc' = "http_get"
  /\ ran' = ran \cup {"http"}
  /\ UNCHANGED <<run, faults, bark_data, unit, origins, pending, http_flights,
                 http_seen, ajax_flights, ajax_seen, fallback_flights,
                 k9_data, served, storeVars, saveVars>>
  /\ UNCHANGED <<normVars, cfgVars, scrollVars>>

(***************************************************************************)
(* _fetch_k9_detail_page: scraper.py 75-126                                *)
(***************************************************************************)
\* history: the stock text of an element, None where the element is missing
StockOf(element) ==
  IF IsNone(element) THEN None ELSE Some(strip_html(Val(element)))

RECURSIVE Pow10(_)
Pow10(n) == IF n = 0 THEN 1 ELSE 10 * Pow10(n - 1)

\* a <= b for two floats <<mantissa, scale>>
PriceLeq(a, b) == a[1] * Pow10(b[2]) <= b[1] * Pow10(a[2])

\* lines 94-100: the values of the price fragments that parse
RECURSIVE Candidates(_)
Candidates(fragments) ==
  IF fragments = <<>>
    THEN <<>>
    ELSE clean_price(strip_html(Head(fragments))) \o Candidates(Tail(fragments))

\* max(candidates), None without candidates
MaxOf(c) ==
  IF c = <<>>
    THEN None
    ELSE Some(CHOOSE x \in {c[i] : i \in 1..Len(c)} :
                \A i \in 1..Len(c) : PriceLeq(c[i], x))

\* lines 93-102: price_value
MaxPrice(fragments) == MaxOf(Candidates(fragments))

SoldOutText == <<"s", "o", "l", "d", " ", "o", "u", "t">>

\* lines 111-119: seats and status from the stock text of the product page
DetailStock(seats_text) ==
  LET seats_value == IF seats_text # <<>>
                       THEN Some(clean_seats(seats_text))
                       ELSE None
  IN IF Contains(Lower(seats_text), SoldOutText)
       THEN [seats |-> None, status |-> "Sold Out"]
       ELSE [seats |-> seats_value, status |-> "Available"]

\* lines 86-126: the dict out for a page that was fetched
DetailOut(page) ==
  LET seats_text == IF IsNone(page.stock)
                      THEN <<>>
                      ELSE strip_html(Val(page.stock))
      st == DetailStock(seats_text)
  IN [price |-> MaxPrice(page.prices), seats |-> st.seats,
      status |-> st.status, stock |-> StockOf(page.stock), page |-> page]

(***************************************************************************)
(* _extract_k9_flights_from_html: scraper.py 158-261                       *)
(***************************************************************************)
\* lines 209-219: seats and status from the stock text of a card
ListStock(seats_text) ==
  LET seats_value == IF seats_text # <<>>
                       THEN Some(clean_seats(seats_text))
                       ELSE None
  IN IF Contains(Lower(seats_text), SoldOutText)
       THEN [seats |-> None, status |-> "Sold Out"]
       ELSE IF ~IsNone(seats_value) /\ Val(seats_value) > 0
              THEN [seats |-> seats_value, status |-> "Available"]
              ELSE [seats |-> None, status |-> "Available"]

\* heading_text.partition(":")[2]
AfterColon(text) ==
  LET p == FindFrom(text, <<":">>, 1)
  IN IF p = 0 THEN <<>> ELSE From(text, p + 1)

DepartureTimePrefix ==
  <<"d", "e", "p", "a", "r", "t", "u", "r", "e", " ", "t", "i", "m", "e", ":">>

\* re.search(r"departure time:\s*(.+)", heading_text, re.I): group(1).strip()
DepartureMatch(text) ==
  LET p == FindFrom(Lower(text), DepartureTimePrefix, 1)
      rest == From(text, p + Len(DepartureTimePrefix))
  IN IF p = 0 \/ rest = <<>> THEN None ELSE Some(Strip(rest))

\* lines 228-239: the loop over the heading lines, acc = the two locals
RECURSIVE Headings(_, _)
Headings(lines, acc) ==
  IF lines = <<>>
    THEN acc
    ELSE LET heading_text == strip_html(Head(lines))
             lower == Lower(heading_text)
             after == Strip(AfterColon(heading_text))
             next ==
               IF /\ Contains(lower, <<"o", "p", "e", "r", "a", "t", "o", "r", ":">>)
                  /\ acc.operator = Unknown
                 THEN [acc EXCEPT !.operator =
                         IF after # <<>> THEN after ELSE acc.operator]
                 ELSE IF /\ Contains(lower, SubSeq(DepartureTimePrefix, 1, 14))
                         /\ IsNone(acc.departure_time)
                        THEN [acc EXCEPT !.departure_time =
                                DepartureMatch(heading_text)]
                        ELSE acc
         IN Headings(Tail(lines), next)

\* lines 191-259 for one article: the flights it adds
ListListing(card) ==
  IF IsNone(card.title) \/ strip_html(Val(card.title)) = <<>>
    THEN <<>>
    ELSE LET raw_date == strip_html(Val(card.title))
             raw_route == IF IsNone(card.desc)
                            THEN UnknownRoute
                            ELSE strip_html(Val(card.desc))
             seats_text == IF IsNone(card.stock)
                             THEN <<>>
                             ELSE strip_html(Val(card.stock))
             st == ListStock(seats_text)
             h == Headings(card.headings,
                           [operator |-> Unknown, departure_time |-> None])
         IN << [competitor |-> K9Jets,
                date |-> raw_date,
                route |-> raw_route,
                operator |-> h.operator,
                price |-> None,
                seats |-> st.seats,
                status |-> st.status,
                departure_time |-> h.departure_time,
                url |-> IF IsNone(card.url)
                          THEN None
                          ELSE Some(Unescape(Val(card.url))),
                src |-> "list",
                stock |-> StockOf(card.stock),
                refined |-> None,
                fragments |-> card.prices] >>

RECURSIVE extract_k9_flights_from_html(_)
extract_k9_flights_from_html(html) ==
  IF html = <<>>
    THEN <<>>
    ELSE ListListing(Head(html)) \o extract_k9_flights_from_html(Tail(html))

(***************************************************************************)
(* scrape_k9_jets_http: scraper.py 583-684                                 *)
(***************************************************************************)
\* lines 622-626 (and 369): drop the options without value and the placeholder
KeepOrigins(options) ==
  SelectSeq(options,
            LAMBDA o : /\ o.value # <<>>
                       /\ ~Contains(Lower(o.label),
                                    <<"f", "l", "y", "i", "n", "g", " ",
                                      "f", "r", "o", "m">>))

\* lines 657-660: prefix the origin to a route without "->" and " to "
RepairRoute(f, origin_label) ==
  LET route == IF f.route = <<>> THEN UnknownRoute ELSE f.route
  IN IF /\ ~Contains(route, <<"-", ">">>)
        /\ ~Contains(Lower(route), <<" ", "t", "o", " ">>)
       THEN [f EXCEPT !.route = origin_label \o <<" ", "-", ">", " ">> \o route]
       ELSE f

\* mutant: the seats of the list view survive the refinement
RefineKeepSeats(f, detail) ==
  [f EXCEPT !.price = IF ~IsNone(detail.price) THEN detail.price ELSE @,
            !.status = detail.status,
            !.src = "detail",
            !.stock = detail.stock,
            !.refined = Some([before |-> f, page |-> detail.page])]

\* lines 666-672: the dict detail overrides the values of the list view
Refine(f, detail) ==
  [f EXCEPT !.price = IF ~IsNone(detail.price) THEN detail.price ELSE @,
            !.seats = detail.seats,
            !.status = detail.status,
            !.src = "detail",
            !.stock = detail.stock,
            !.refined = Some([before |-> f, page |-> detail.page])]

\* key = f"{f['date']}|{f['route']}"
HttpKey(f) == f.date \o <<"|">> \o f.route

\* mutant: the hybrid strategy is started whatever the HTTP strategy returned
AfterHttpAlwaysHybrid(k9_http_data) ==
  /\ k9_data' = k9_data
  /\ data' = data
  /\ pc' = "ajax_start"
  /\ ran' = ran \cup {"hybrid"}

\* main lines 761-763, once scrape_k9_jets_http has returned k9_http_data
AfterHttp(k9_http_data) ==
  IF k9_http_data # <<>>
    THEN /\ k9_data' = k9_http_data
         /\ data' = bark_data \o k9_http_data
         /\ pc' = "save"
         /\ ran' = ran
    ELSE /\ k9_data' = k9_data
         /\ data' = data
         /\ pc' = "ajax_start"
         /\ ran' = ran \cup {"hybrid"}

\* lines 612-617: the GET of /routes/ fails, the scraper returns []
HttpGetFails ==
  /\ pc = "http_get"
  /\ faults < MaxFaults
  /\ faults' = faults + 1
  /\ AfterHttp(<<>>)
  /\ UNCHANGED <<run, bark_data, unit, origins, pending, http_flights,
                 http_seen, ajax_flights, ajax_seen, fallback_flights, served,
                 storeVars, clean_data, idx, flight_id, snaps0, storeOK,
                 persisted, last, prev>>
  /\ UNCHANGED <<normVars, cfgVars, scrollVars>>

\* lines 619-632: the options of the page; without origins the scraper returns []
HttpGet ==
  /\ pc = "http_get"
  /\ \E options \in OptionLists :
       /\ origins' = KeepOrigins(options)
       /\ IF origins' = <<>>
            THEN AfterHttp(<<>>)
            ELSE /\ pc' = "http_post"
                 /\ UNCHANGED <<k9_data, data, ran>>
  /\ unit' = 1
  /\ UNCHANGED <<run, faults, bark_data, pending, http_flights, http_seen,
                 ajax_flights, ajax_seen, fallback_flights, served, storeVars,
                 clean_data, idx, flight_id, snaps0, storeOK, persisted, last,
                 prev>>
  /\ UNCHANGED <<normVars, cfgVars, scrollVars>>

\* lines 645-650: the POST for one origin fails, the origin is skipped
HttpPostFails ==
  /\ pc = "http_post"
  /\ unit <= Len(origins)
  /\ faults < MaxFaults
  /\ faults' = faults + 1
  /\ unit' = unit + 1
  /\ UNCHANGED <<pc, run, bark_data, origins, pending, http_flights,
                 http_seen, ajax_flights, ajax_seen, fallback_flights,
                 k9_data, served, ran, storeVars, saveVars>>
  /\ UNCHANGED <<normVars, cfgVars, scrollVars>>

\* lines 646-653: the POST for one origin returns a page, its cards are parsed
HttpPost ==
  /\ pc = "http_post"
  /\ unit <= Len(origins)
  /\ \E html \in Pages(K9Cards) :
       /\ pending' = extract_k9_flights_from_html(html)
       /\ served' = served + Len(html)
  /\ IF pending' = <<>>
       THEN pc' = pc /\ unit' = unit + 1
       ELSE pc' = "http_card" /\ unit' = unit
  /\ UNCHANGED <<run, faults, bark_data, origins, http_flights, http_seen,
                 ajax_flights, ajax_seen, fallback_flights, k9_data, ran,
                 storeVars, saveVars>>
  /\ UNCHANGED <<normVars, cfgVars, scrollVars>>

\* lines 677-681 for the flight f, and the step to the next flight or origin
HttpCollect(f) ==
  /\ IF HttpKey(f) \in http_seen
       THEN UNCHANGED <<http_flights, http_seen>>
       ELSE /\ http_seen' = http_seen \cup {HttpKey(f)}
            /\ http_flights' = Append(http_flights, f)
  /\ pending' = Tail(pending)
  /\ IF pending' = <<>>
       THEN pc' = "http_post" /\ unit' = unit + 1
       ELSE pc' = pc /\ unit' = unit
  /\ UNCHANGED <<run, bark_data, origins, ajax_flights, ajax_seen,
                 fallback_flights, k9_data, served, ran, storeVars, saveVars>>
  /\ UNCHANGED <<normVars, cfgVars, scrollVars>>

\* lines 655-681 for a flight without detail URL
HttpCard ==
  /\ pc = "http_card"
  /\ IsNone(Head(pending).url)
  /\ HttpCollect(RepairRoute(Head(pending), origins[unit].label))
  /\ UNCHANGED faults

\* lines 655-681 for a flight with a detail URL whose page is fetched
HttpCardDetail ==
  /\ pc = "http_card"
  /\ ~IsNone(Head(pending).url)
  /\ \E page \in DetailPages :
       HttpCollect(Refine(RepairRoute(Head(pending), origins[unit].label),
                          DetailOut(page)))
  /\ UNCHANGED faults

\* lines 80-84: the GET of the product page fails, detail is {}
HttpCardDetailFails ==
  /\ pc = "http_card"
  /\ ~IsNone(Head(pending).url)
  /\ faults < MaxFaults
  /\ faults' = faults + 1
  /\ HttpCollect(RepairRoute(Head(pending), origins[unit].label))

\* line 684 and main lines 760-763: every origin has been handled
HttpReturn ==
  /\ pc = "http_post"
  /\ unit > Len(origins)
  /\ AfterHttp(http_flights)
  /\ UNCHANGED <<run, faults, bark_data, unit, origins, pending, http_flights,
                 http_seen, ajax_flights, ajax_seen, fallback_flights, served,
                 storeVars, clean_data, idx, flight_id, snaps0, storeOK,
                 persisted, last, prev>>
  /\ UNCHANGED <<normVars, cfgVars, scrollVars>>

(***************************************************************************)
(* scrape_k9_jets_ajax: scraper.py 352-466, scrape_k9_jets_fallback:       *)
(* 468-560, scrape_k9_jets: 562-580                                        *)
(***************************************************************************)
\* the threshold of line 571
AjaxLimit == 100

\* Locator.inner_text() of an element of the page
InnerText(fragment) == RemoveTags(fragment)

\* text.replace(old, "")
RECURSIVE Remove(_, _)
Remove(text, old) ==
  LET p == FindFrom(text, old, 1)
  IN IF p = 0
       THEN text
       ELSE SubSeq(text, 1, p - 1) \o Remove(From(text, p + Len(old)), old)

OperatorPrefix == <<"O", "p", "e", "r", "a", "t", "o", "r", ":">>

\* lines 437-443 (536-542): the first heading that contains "Operator:"
RECURSIVE DomOperator(_)
DomOperator(lines) ==
  IF lines = <<>>
    THEN Unknown
    ELSE LET text == InnerText(Head(lines))
         IN IF Contains(text, OperatorPrefix)
              THEN Strip(Remove(text, OperatorPrefix))
              ELSE DomOperator(Tail(lines))

\* flight_key = f"{raw_date}|{route_text}", lines 419-426 (509-521)
DomKey(card, default_route) ==
  InnerText(Val(card.title)) \o <<"|">>
    \o (IF IsNone(card.desc) THEN default_route ELSE InnerText(Val(card.desc)))

\* lines 431-453 (526-556): the dict appended for a card that is kept
DomListing(card, default_route, src) ==
  LET raw_date == InnerText(Val(card.title))
      route_text == IF IsNone(card.desc)
                      THEN default_route
                      ELSE InnerText(Val(card.desc))
      price_text == IF card.prices = <<>>
                      THEN <<"0">>
                      ELSE InnerText(card.prices[1])
      seats_text == IF IsNone(card.stock)
                      THEN <<"0">>
                      ELSE InnerText(Val(card.stock))
  IN [competitor |-> K9Jets,
      date |-> Strip(raw_date),
      route |-> Strip(route_text),
      operator |-> DomOperator(card.headings),
      price |-> clean_price(price_text),
      seats |-> Some(clean_seats(seats_text)),
      status |-> IF clean_seats(seats_text) > 0 THEN "Available" ELSE "Sold Out",
      departure_time |-> None,
      url |-> None,
      src |-> src,
      stock |-> StockOf(card.stock),
      refined |-> None,
      fragments |-> card.prices]

\* lines 417-455 (507-558): the loop over the cards; acc = all_flights and
\* the set seen_flights
RECURSIVE DomCollect(_, _, _, _)
DomCollect(cards, default_route, src, acc) ==
  IF cards = <<>>
    THEN acc
    ELSE LET card == Head(cards)
         IN IF IsNone(card.title)
              THEN DomCollect(Tail(cards), default_route, src, acc)
              ELSE IF DomKey(card, default_route) \in acc.seen
                     THEN DomCollect(Tail(cards), default_route, src, acc)
                     ELSE DomCollect(
                            Tail(cards), default_route, src,
                            [flights |->
                               Append(acc.flights,
                                      DomListing(card, default_route, src)),
                             seen |->
                               acc.seen \cup {DomKey(card, default_route)}])

\* the destination the arrival dropdown offers for an origin
Destination(origin) == IF origin.label = London THEN Paris ELSE London

\* scrape_k9_jets lines 569-578, once scrape_k9_jets_ajax has returned
AfterAjax(ajax) ==
  IF Len(ajax) > AjaxLimit
    THEN /\ k9_data' = ajax
         /\ data' = bark_data \o ajax
         /\ pc' = "save"
    ELSE /\ k9_data' = k9_data
         /\ data' = data
         /\ pc' = "fallback"

\* lines 362-366, 464-466: the page or a dropdown fails, the strategy returns []
AjaxStartFails ==
  /\ pc = "ajax_start"
  /\ faults < MaxFaults
  /\ faults' = faults + 1
  /\ AfterAjax(<<>>)
  /\ UNCHANGED <<run, bark_data, unit, origins, pending, http_flights,
                 http_seen, ajax_flights, ajax_seen, fallback_flights, served,
                 ran, storeVars, clean_data, idx, flight_id, snaps0, storeOK,
                 persisted, last, prev>>
  /\ UNCHANGED <<normVars, cfgVars, scrollVars>>

\* lines 363-389: the origins of the dropdown and the test of the first one;
\* populated: selecting an origin fills the arrival dropdown
AjaxStart ==
  /\ pc = "ajax_start"
  /\ \E options \in OptionLists, populated \in BOOLEAN :
       /\ origins' = KeepOrigins(options)
       /\ IF origins' = <<>> \/ ~populated
            THEN AfterAjax(<<>>)
            ELSE /\ pc' = "ajax_origin"
                 /\ UNCHANGED <<k9_data, data>>
  /\ unit' = 1
  /\ UNCHANGED <<run, faults, bark_data, pending, http_flights, http_seen,
                 ajax_flights, ajax_seen, fallback_flights, served, ran,
                 storeVars, clean_data, idx, flight_id, snaps0, storeOK,
                 persisted, last, prev>>
  /\ UNCHANGED <<normVars, cfgVars, scrollVars>>

\* lines 393-400, 459-460: a step for one origin fails, the origin is skipped
AjaxOriginFails ==
  /\ pc = "ajax_origin"
  /\ unit <= Len(origins)
  /\ faults < MaxFaults
  /\ faults' = faults + 1
  /\ unit' = unit + 1
  /\ UNCHANGED <<pc, run, bark_data, origins, pending, http_flights,
                 http_seen, ajax_flights, ajax_seen, fallback_flights,
                 k9_data, served, ran, storeVars, saveVars>>
  /\ UNCHANGED <<normVars, cfgVars, scrollVars>>

\* lines 393-458: the cards the filter shows for one origin
AjaxOrigin ==
  /\ pc = "ajax_origin"
  /\ unit <= Len(origins)
  /\ \E cards \in Pages(K9Cards) :
       LET default_route ==
             origins[unit].label \o <<" ", "-", ">", " ">>
               \o Destination(origins[unit])
           acc == DomCollect(cards, default_route, "ajax",
                             [flights |-> ajax_flights, seen |-> ajax_seen])
       IN /\ ajax_flights' = acc.flights
          /\ ajax_seen' = acc.seen
          /\ served' = served + Len(cards)
  /\ unit' = unit + 1
  /\ UNCHANGED <<pc, run, faults, bark_data, origins, pending, http_flights,
                 http_seen, fallback_flights, k9_data, ran, storeVars,
                 saveVars>>
  /\ UNCHANGED <<normVars, cfgVars, scrollVars>>

\* str(n) of a natural number
RECURSIVE IntToDigits(_)
IntToDigits(n) ==
  LET d == CHOOSE c \in Digits : DigitVal(c) = n % 10
  IN IF n < 10 THEN <<d>> ELSE Append(IntToDigits(n \div 10), d)

\* the i-th card of a long result list: a date of its own, no description
BulkCard(i) ==
  [title |-> Some(<<"d", "a", "y", " ">> \o IntToDigits(i)), desc |-> None,
   prices |-> <<Text_10>>, stock |-> Some(Stock_3Seats),
   headings |-> <<>>, url |-> None]

BulkPage(first, n) == [i \in 1..n |-> BulkCard(first + i - 1)]

\* lengths of the long result lists: around the threshold of line 571
BulkSizes == {AjaxLimit - 1, AjaxLimit, AjaxLimit + 1}

\* lines 393-458 where the filters of the first origin show a long list of
\* cards, one half for each of two destinations (these cards are outside
\* the budget MaxCards)
AjaxOriginBulk ==
  /\ pc = "ajax_origin"
  /\ unit <= Len(origins)
  /\ ajax_flights = <<>>
  /\ \E n \in BulkSizes :
       LET half == n \div 2
           route1 == origins[unit].label \o <<" ", "-", ">", " ">>
                       \o Destination(origins[unit])
           route2 == origins[unit].label \o <<" ", "-", ">", " ">>
                       \o origins[unit].label
           acc1 == DomCollect(BulkPage(1, half), route1, "ajax",
                              [flights |-> ajax_flights, seen |-> ajax_seen])
           acc2 == DomCollect(BulkPage(half + 1, n - half), route2, "ajax",
                              acc1)
       IN /\ ajax_flights' = acc2.flights
          /\ ajax_seen' = acc2.seen
  /\ unit' = unit + 1
  /\ UNCHANGED <<pc, run, faults, bark_data, origins, pending, http_flights,
                 http_seen, fallback_flights, k9_data, served, ran, storeVars,
                 saveVars>>
  /\ UNCHANGED <<normVars, cfgVars, scrollVars>>

\* line 462 and scrape_k9_jets lines 569-578
AjaxReturn ==
  /\ pc = "ajax_origin"
  /\ unit > Len(origins)
  /\ AfterAjax(ajax_flights)
  /\ UNCHANGED <<run, faults, bark_data, unit, origins, pending, http_flights,
                 http_seen, ajax_flights, ajax_seen, fallback_flights, served,
                 ran, storeVars, clean_data, idx, flight_id, snaps0, storeOK,
                 persisted, last, prev>>
  /\ UNCHANGED <<normVars, cfgVars, scrollVars>>

\* line 477: page.goto raises; nothing up to asyncio.run catches it
FallbackFails ==
  /\ pc = "fallback"
  /\ faults < MaxFaults
  /\ faults' = faults + 1
  /\ pc' = "crashed"
  /\ UNCHANGED <<run, scrapeVars, storeVars, saveVars>>
  /\ UNCHANGED <<normVars, cfgVars, scrollVars>>

\* lines 477-560, scrape_k9_jets lines 578-580 and main lines 761-763: the
\* cards that are visible once the scrolling has ended
Fallback ==
  /\ pc = "fallback"
  /\ \E cards \in Pages(K9Cards) :
       LET acc == DomCollect(cards, UnknownRoute, "fallback",
                             [flights |-> <<>>, seen |-> {}])
       IN /\ fallback_flights' = acc.flights
          /\ k9_data' = acc.flights
          /\ data' = bark_data \o acc.flights
          /\ served' = served + Len(cards)
  /\ pc' = "save"
  /\ UNCHANGED <<run, faults, bark_data, unit, origins, pending, http_flights,
                 http_seen, ajax_flights, ajax_seen, ran, storeVars,
                 clean_data, idx, flight_id, snaps0, storeOK, persisted, last,
                 prev>>
  /\ UNCHANGED <<normVars, cfgVars, scrollVars>>

(***************************************************************************)
(* The script: scraper.py 13-22 and main, 753-768, one run                 *)
(***************************************************************************)
Init ==
  /\ pc = "import"
  /\ run = 1
  /\ \/ flights = {} /\ snapshots = <<>> /\ nextId = 1
     \/ flights = UsedFlights /\ snapshots = UsedSnapshots /\ nextId = 2
  /\ data = <<>>
  /\ clean_data = <<>>
  /\ idx = 1
  /\ flight_id = None
  /\ faults = 0
  /\ bark_data = <<>>
  /\ unit = 1
  /\ origins = <<>>
  /\ pending = <<>>
  /\ http_flights = <<>>
  /\ http_seen = {}
  /\ ajax_flights = <<>>
  /\ ajax_seen = {}
  /\ fallback_flights = <<>>
  /\ k9_data = <<>>
  /\ served = 0
  /\ ran = {}
  /\ snaps0 = Len(snapshots)
  /\ storeOK = TRUE
  /\ persisted = {}
  /\ last = NoStep
  /\ prev = NoRun
  /\ arg = <<>>
  /\ ret = NoCall
  /\ env \in Environments
  /\ NotScrolling

Next ==
  \/ ImportFails
  \/ Import
  \/ BarkRouteFails
  \/ BarkRoute
  \/ BarkReturn
  \/ HttpGetFails
  \/ HttpGet
  \/ HttpPostFails
  \/ HttpPost
  \/ HttpCard
  \/ HttpCardDetail
  \/ HttpCardDetailFails
  \/ HttpReturn
  \/ AjaxStartFails
  \/ AjaxStart
  \/ AjaxOriginFails
  \/ AjaxOrigin
  \/ AjaxReturn
  \/ FallbackFails
  \/ Fallback
  \/ Save

Spec == Init /\ [][Next]_vars

(***************************************************************************)
(* scrape_k9_jets: scraper.py 562-580, one call, with result lists of the  *)
(* AJAX strategy around the threshold                                      *)
(***************************************************************************)
HybridInit ==
  /\ pc = "ajax_start"
  /\ run = 1
  /\ flights = {} /\ snapshots = <<>> /\ nextId = 1
  /\ data = <<>>
  /\ clean_data = <<>>
  /\ idx = 1
  /\ flight_id = None
  /\ faults = 0
  /\ bark_data = <<>>
  /\ unit = 1
  /\ origins = <<>>
  /\ pending = <<>>
  /\ http_flights = <<>>
  /\ http_seen = {}
  /\ ajax_flights = <<>>
  /\ ajax_seen = {}
  /\ fallback_flights = <<>>
  /\ k9_data = <<>>
  /\ served = 0
  /\ ran = {"bark", "http", "hybrid"}
  /\ snaps0 = 0
  /\ storeOK = TRUE
  /\ persisted = {}
  /\ last = NoStep
  /\ prev = NoRun
  /\ arg = <<>>
  /\ ret = NoCall
  /\ env = Configured
  /\ NotScrolling

HybridNext ==
  \/ AjaxStartFails
  \/ AjaxStart
  \/ AjaxOriginFails
  \/ AjaxOrigin
  \/ AjaxOriginBulk
  \/ AjaxReturn
  \/ FallbackFails
  \/ Fallback

HybridSpec == HybridInit /\ [][HybridNext]_vars

(***************************************************************************)
(* The scroll loop of scrape_k9_jets_fallback: scraper.py 481-502, run     *)
(* once; each iteration reads a card count of at most MaxCount             *)
(***************************************************************************)
MaxCount == 2

\* line 484
max_scrolls == 50

\* line 496: the number of iterations without change that ends the loop
Strikes == 3

\* the last n elements of q
LastN(q, n) == IF Len(q) <= n THEN q ELSE SubSeq(q, Len(q) - n + 1, Len(q))

ScrollInit ==
  /\ pc = "scroll"
  /\ run = 1
  /\ flights = {} /\ snapshots = <<>> /\ nextId = 1
  /\ data = <<>>
  /\ clean_data = <<>>
  /\ idx = 1
  /\ flight_id = None
  /\ faults = 0
  /\ bark_data = <<>>
  /\ unit = 1
  /\ origins = <<>>
  /\ pending = <<>>
  /\ http_flights = <<>>
  /\ http_seen = {}
  /\ ajax_flights = <<>>
  /\ ajax_seen = {}
  /\ fallback_flights = <<>>
  /\ k9_data = <<>>
  /\ served = 0
  /\ ran = {"bark", "http", "hybrid", "fallback"}
  /\ snaps0 = 0
  /\ storeOK = TRUE
  /\ persisted = {}
  /\ last = NoStep
  /\ prev = NoRun
  /\ arg = <<>>
  /\ ret = NoCall
  /\ env = Configured
  /\ NotScrolling

NoChangeNeverReset(current_count) ==
  IF current_count = previous_count
    THEN no_change_count + 1
    ELSE no_change_count

\* lines 494-495 and 499-500: no_change_count once current_count is compared
NoChange(current_count) ==
  IF current_count = previous_count THEN no_change_count + 1 ELSE 0

\* lines 486-502: one iteration, in which the page shows current_count cards
ScrollStep ==
  /\ pc = "scroll"
  /\ scrolls < max_scrolls
  /\ \E current_count \in 0..MaxCount :
       /\ observed' = LastN(Append(observed, current_count), Strikes + 1)
       /\ no_change_count' = NoChange(current_count)
       /\ IF current_count = previous_count /\ no_change_count' >= Strikes
            THEN pc' = "scroll_break" /\ previous_count' = previous_count
            ELSE pc' = pc /\ previous_count' = current_count
  /\ scrolls' = scrolls + 1
  /\ UNCHANGED <<run, faults, scrapeVars, storeVars, saveVars, normVars,
                 cfgVars>>

\* line 486: range(max_scrolls) is used up
ScrollExhausted ==
  /\ pc = "scroll"
  /\ scrolls = max_scrolls
  /\ pc' = "scroll_end"
  /\ UNCHANGED <<run, faults, scrapeVars, storeVars, saveVars, normVars,
                 cfgVars, scrollVars>>

ScrollNext == ScrollStep \/ ScrollExhausted

\* an iteration that has begun ends: every wait in it has a timeout
ScrollSpec == ScrollInit /\ [][ScrollNext]_vars /\ WF_vars(ScrollNext)

(***************************************************************************)
(* normalize_airport: network_analysis.py 16-75                            *)
(***************************************************************************)
\* lines 16-61: the dictionary as a set of <<key, value>> pairs with distinct keys
AIRPORT_MAPPING ==
  { <<<<"L", "o", "n", "d", "o", "n", ",", " ", "U", "K">>, <<"L", "o", "n",
        "d", "o", "n">>>>,
    <<<<"L", "o", "n", "d", "o", "n", "/", ",", " ", "U", "K">>, <<"L", "o",
        "n", "d", "o", "n">>>>,
    <<<<"F", "a", "r", "n", "b", "o", "r", "o", "u", "g", "h", ",", " ", "U",
        "K">>, <<"L", "o", "n", "d", "o", "n", " ", "(", "F", "a", "r", "n",
        "b", "o", "r", "o", "u", "g", "h", ")">>>>,
    <<<<"B", "i", "g", "g", "i", "n", " ", "H", "i", "l", "l", ",", " ", "U",
        "K">>, <<"L", "o", "n", "d", "o", "n", " ", "(", "B", "i", "g", "g",
        "i", "n", " ", "H", "i", "l", "l", ")">>>>,
    <<<<"B", "i", "r", "m", "i", "n", "g", "h", "a", "m", ",", " ", "U",
        "K">>, <<"B", "i", "r", "m", "i", "n", "g", "h", "a", "m">>>>,
    <<<<"M", "i", "l", "a", "n", ",", " ", "U", "K">>, <<"M", "i", "l", "a",
        "n">>>>,
    <<<<"M", "i", "l", "a", "n", ",", " ", "I", "t", "a", "l", "y">>, <<"M",
        "i", "l", "a", "n">>>>,
    <<<<"M", "a", "d", "r", "i", "d", ",", " ", "U", "K">>, <<"M", "a", "d",
        "r", "i", "d">>>>,
    <<<<"M", "a", "d", "r", "i", "d", ",", " ", "S", "p", "a", "i", "n">>,
        <<"M", "a", "d", "r", "i", "d">>>>,
    <<<<"P", "a", "r", "i", "s", ",", " ", "F", "r", "a", "n", "c", "e">>,
        <<"P", "a", "r", "i", "s">>>>,
    <<<<"L", "e", " ", "B", "o", "u", "r", "g", "e", "t", " ", "P", "a", "r",
        "i", "s", ",", " ", "F", "r", "a", "n", "c", "e">>, <<"P", "a", "r",
        "i", "s", " ", "(", "L", "e", " ", "B", "o", "u", "r", "g", "e", "t",
        ")">>>>,
    <<<<"P", "a", "r", "i", "s", " ", "(", "L", "e", " ", "B", "o", "u", "r",
        "g", "e", "t", ")">>, <<"P", "a", "r", "i", "s", " ", "(", "L", "e",
        " ", "B", "o", "u", "r", "g", "e", "t", ")">>>>,
    <<<<"N", "i", "c", "e", ",", " ", "F", "r", "a", "n", "c", "e">>, <<"N",
        "i", "c", "e">>>>,
    <<<<"G", "e", "n", "e", "v", "a", ",", " ", "S", "w", "i", "t", "z", "e",
        "r", "l", "a", "n", "d">>, <<"G", "e", "n", "e", "v", "a">>>>,
    <<<<"Z", "u", "r", "i", "c", "h", ",", " ", "S", "w", "i", "t", "z", "e",
        "r", "l", "a", "n", "d">>, <<"Z", "u", "r", "i", "c", "h">>>>,
    <<<<"F", "r", "a", "n", "k", "f", "u", "r", "t", ",", " ", "G", "e", "r",
        "m", "a", "n", "y">>, <<"F", "r", "a", "n", "k", "f", "u", "r",
        "t">>>>,
    <<<<"L", "i", "s", "b", "o", "n", ",", " ", "P", "o", "r", "t", "u", "g",
        "a", "l">>, <<"L", "i", "s", "b", "o", "n">>>>,
    <<<<"D", "u", "b", "l", "i", "n", ",", " ", "I", "r", "e", "l", "a", "n",
        "d">>, <<"D", "u", "b", "l", "i", "n">>>>,
    <<<<"T", "o", "r", "o", "n", "t", "o", ",", " ", "U", "K">>, <<"T", "o",
        "r", "o", "n", "t", "o">>>>,
    <<<<"T", "o", "r", "o", "n", "t", "o", ",", " ", "C", "a", "n", "a", "d",
        "a">>, <<"T", "o", "r", "o", "n", "t", "o">>>>,
    <<<<"V", "a", "n", "c", "o", "u", "v", "e", "r", ",", " ", "C", "a", "n",
        "a", "d", "a">>, <<"V", "a", "n", "c", "o", "u", "v", "e", "r">>>>,
    <<<<"N", "e", "w", " ", "J", "e", "r", "s", "e", "y", ",", " ", "U",
        "S">>, <<"N", "e", "w", " ", "Y", "o", "r", "k", " ", "(", "T", "e",
        "t", "e", "r", "b", "o", "r", "o", ")">>>>,
    <<<<"T", "e", "t", "e", "r", "b", "o", "r", "o", ",", " ", "N", "J">>,
        <<"N", "e", "w", " ", "Y", "o", "r", "k", " ", "(", "T", "e", "t",
        "e", "r", "b", "o", "r", "o", ")">>>>,
    <<<<"T", "e", "t", "e", "r", "b", "o", "r", "o", ",", " ", "N", "e", "w",
        " ", "J", "e", "r", "s", "e", "y">>, <<"N", "e", "w", " ", "Y", "o",
        "r", "k", " ", "(", "T", "e", "t", "e", "r", "b", "o", "r", "o",
        ")">>>>,
    <<<<"N", "e", "w", " ", "Y", "o", "r", "k", " ", "(", "T", "e", "t", "e",
        "r", "b", "o", "r", "o", ")">>, <<"N", "e", "w", " ", "Y", "o", "r",
        "k", " ", "(", "T", "e", "t", "e", "r", "b", "o", "r", "o", ")">>>>,
    <<<<"W", "h", "i", "t", "e", " ", "P", "l", "a", "i", "n", "s", ",", " ",
        "N", "Y">>, <<"N", "e", "w", " ", "Y", "o", "r", "k", " ", "(", "W",
        "h", "i", "t", "e", " ", "P", "l", "a", "i", "n", "s", ")">>>>,
    <<<<"L", "o", "s", " ", "A", "n", "g", "e", "l", "e", "s", ",", " ", "U",
        "S">>, <<"L", "o", "s", " ", "A", "n", "g", "e", "l", "e", "s", " ",
        "(", "V", "a", "n", " ", "N", "u", "y", "s", ")">>>>,
    <<<<"L", "o", "s", " ", "A", "n", "g", "e", "l", "e", "s">>, <<"L", "o",
        "s", " ", "A", "n", "g", "e", "l", "e", "s", " ", "(", "V", "a", "n",
        " ", "N", "u", "y", "s", ")">>>>,
    <<<<"V", "a", "n", " ", "N", "u", "y", "s", ",", " ", "C", "a", "l", "i",
        "f", "o", "r", "n", "i", "a">>, <<"L", "o", "s", " ", "A", "n", "g",
        "e", "l", "e", "s", " ", "(", "V", "a", "n", " ", "N", "u", "y", "s",
        ")">>>>,
    <<<<"V", "a", "n", " ", "N", "u", "y", "s", ",", " ", "C", "A">>, <<"L",
        "o", "s", " ", "A", "n", "g", "e", "l", "e", "s", " ", "(", "V", "a",
        "n", " ", "N", "u", "y", "s", ")">>>>,
    <<<<"M", "i", "a", "m", "i", ",", " ", "U", "S">>, <<"M", "i", "a", "m",
        "i">>>>,
    <<<<"M", "i", "a", "m", "i", ",", " ", "F", "l", "o", "r", "i", "d",
        "a">>, <<"M", "i", "a", "m", "i">>>>,
    <<<<"W", "e", "s", "t", " ", "P", "a", "l", "m", " ", "B", "e", "a", "c",
        "h", ",", " ", "F", "l", "o", "r", "i", "d", "a">>, <<"W", "e", "s",
        "t", " ", "P", "a", "l", "m", " ", "B", "e", "a", "c", "h">>>>,
    <<<<"D", "u", "b", "a", "i", ",", " ", "U", "A", "E">>, <<"D", "u", "b",
        "a", "i">>>> }

GetDefault(dict, key, default) == default

\* dict.get(key, default)
Get(dict, key, default) ==
  IF \E kv \in dict : kv[1] = key
    THEN (CHOOSE kv \in dict : kv[1] = key)[2]
    ELSE default

\* lines 63-75; name is a str or None (pd.isna of a str is False), and the
\* empty str is false as None is
normalize_airport(name) ==
  IF name = <<>>
    THEN None
    ELSE LET clean_name == Strip(name)
         IN IF clean_name = <<"0">>
              THEN None
              ELSE Some(Get(AIRPORT_MAPPING, clean_name, clean_name))

(***************************************************************************)
(* The normalizers clean_price, clean_seats and split_route, scraper.py    *)
(* 24-72, each called once on a text put together from at most MaxTokens   *)
(* tokens, and the heading loop of _extract_k9_flights_from_html, run once *)
(* on at most MaxHeadings heading lines                                    *)
(***************************************************************************)
MaxTokens == 3

RECURSIVE Concat(_)
Concat(q) == IF q = <<>> THEN <<>> ELSE Head(q) \o Concat(Tail(q))

PriceTokens ==
  { <<"$", "1", ",", "2">>,
    <<"3", "4">>,
    <<".", "5", "0">>,
    <<".">>,
    <<"7">>,
    <<"U", "S", "D", " ">>,
    <<"0">> }

SeatTokens ==
  { <<"6">>,
    <<"1", "2">>,
    <<" ", "S", "e", "a", "t", "s", " ", "A", "v", "a", "i", "l", "a", "b",
      "l", "e">>,
    Stock_SoldOut,
    <<" ">>,
    <<"0">> }

RouteTokens ==
  { <<"A">>,
    <<" ", "t", "o", " ", "B">>,
    <<" ", "T", "O", " ", "B">>,
    <<" ", "-", " ", "C">>,
    <<" ", "ndash", " ", "C">>,
    <<" ", "mdash", " ", "C">>,
    <<"-", ">", "D">>,
    <<"rarr", "D">>,
    <<" ", "-", " ">>,
    <<"-", ">">>,
    <<"t", "o">>,
    <<" ">> }

\* heading lines of a card: p.elementor-heading-title
HeadingLines ==
  { <<"O", "p", "e", "r", "a", "t", "o", "r", ":", " ", "P", "e", "g">>,
    <<"O", "p", "e", "r", "a", "t", "o", "r", ":", " ", "S", "k", "y">>,
    <<"O", "p", "e", "r", "a", "t", "o", "r", ":">>,
    <<"O", "p", "e", "r", "a", "t", "o", "r", ":", " ", "U", "n", "k", "n",
    "o", "w", "n">>,
    <<"F", "l", "i", "g", "h", "t", " ", "o", "p", "e", "r", "a", "t", "o",
    "r", ":", " ", "J", "e", "t">>,
    <<"D", "e", "p", "a", "r", "t", "u", "r", "e", " ", "T", "i", "m", "e",
    ":", " ", "2", " ", "P", "M">>,
    <<"D", "e", "p", "a", "r", "t", "u", "r", "e", " ", "T", "i", "m", "e",
    ":", " ", "3", " ", "P", "M">>,
    <<"D", "e", "p", "a", "r", "t", "u", "r", "e", " ", "T", "i", "m", "e",
    ":">>,
    <<"A", "i", "r", "c", "r", "a", "f", "t", ":", " ", "G", "5">> }

MaxHeadings == 3

\* airport names as network_analysis.py reads them from the flights table
AirportTokens ==
  { <<" ">>,
    <<"0">>,
    <<"V", "a", "n", " ", "N", "u", "y", "s", ",", " ", "C", "A">>,
    <<"L", "o", "s", " ", "A", "n", "g", "e", "l", "e", "s">>,
    <<",", " ", "U", "S">>,
    <<"L", "o", "n", "d", "o", "n">>,
    <<",", " ", "U", "K">>,
    <<"O", "s", "l", "o">> }

TextsOver(tokens) == {Concat(q) : q \in SeqsUpTo(tokens, MaxTokens)}

Texts == TextsOver(PriceTokens) \cup TextsOver(SeatTokens)
           \cup TextsOver(RouteTokens) \cup TextsOver(AirportTokens)

NormInit ==
  /\ \/ pc = "call" /\ arg \in Texts
     \/ pc = "call_headings" /\ arg \in SeqsUpTo(HeadingLines, MaxHeadings)
  /\ run = 1
  /\ flights = {} /\ snapshots = <<>> /\ nextId = 1
  /\ data = <<>>
  /\ clean_data = <<>>
  /\ idx = 1
  /\ flight_id = None
  /\ faults = 0
  /\ bark_data = <<>>
  /\ unit = 1
  /\ origins = <<>>
  /\ pending = <<>>
  /\ http_flights = <<>>
  /\ http_seen = {}
  /\ ajax_flights = <<>>
  /\ ajax_seen = {}
  /\ fallback_flights = <<>>
  /\ k9_data = <<>>
  /\ served = 0
  /\ ran = {}
  /\ snaps0 = 0
  /\ storeOK = TRUE
  /\ persisted = {}
  /\ last = NoStep
  /\ prev = NoRun
  /\ ret = NoCall
  /\ env = Configured
  /\ NotScrolling

\* the call returns value
Return(fn, value) ==
  /\ pc = "call"
  /\ pc' = "returned"
  /\ ret' = [fn |-> fn, value |-> value]
  /\ UNCHANGED <<arg, run, faults, scrapeVars, storeVars, saveVars, cfgVars,
                 scrollVars>>

CallCleanPrice == Return("clean_price", clean_price(arg))

CallCleanSeats == Return("clean_seats", clean_seats(arg))

CallSplitRoute == Return("split_route", split_route(arg))

CallNormalizeAirport == Return("normalize_airport", normalize_airport(arg))

\* scraper.py 655-660 for a flight of the list view with the route arg (a
\* text that _strip_html has stripped, line 131), under the origin London or
\* Paris of the dropdown
CallRepairRoute ==
  /\ pc = "call"
  /\ Strip(arg) = arg
  /\ \E origin_label \in {London, Paris} :
       Return("repair_route",
              [origin_label |-> origin_label,
               route |-> RepairRoute([route |-> arg], origin_label).route])

\* scraper.py 224-239: the loop over the heading lines of one card
CallHeadings ==
  /\ pc = "call_headings"
  /\ pc' = "returned"
  /\ ret' = [fn |-> "headings",
             value |-> Headings(arg, [operator |-> Unknown,
                                      departure_time |-> None])]
  /\ UNCHANGED <<arg, run, faults, scrapeVars, storeVars, saveVars, cfgVars,
                 scrollVars>>

NormNext ==
  \/ CallCleanPrice
  \/ CallCleanSeats
  \/ CallSplitRoute
  \/ CallNormalizeAirport
  \/ CallRepairRoute
  \/ CallHeadings

NormSpec == NormInit /\ [][NormNext]_vars

(***************************************************************************)
(* Properties of save_to_supabase                                          *)
(***************************************************************************)
Parses(item) == ~IsNone(ParseDate(item.date))

\* the Flight identity a listing is stored under
Identity(item) == FlightKey(FlightPayload(item, Val(ParseDate(item.date))))

\* the rows of flights with the identity of a listing
FlightsOf(item) == {f \in flights : FlightKey(f) = Identity(item)}

\* the current run and the one before it persisted the same single listing,
\* the date of the listing parses, and no data-store call failed
SameListingTwice ==
  /\ pc = "done"
  /\ run >= 2
  /\ storeOK
  /\ prev.ok
  /\ Len(data) = 1
  /\ prev.data = data
  /\ Parses(data[1])

\* C1: two runs of save_to_supabase on the same single listing with a
\* parseable date leave exactly one Flight row for the identity of the
\* listing and add exactly two Snapshot rows, both with the id of that row.
C1_Idempotent ==
  SameListingTwice =>
    /\ Cardinality(FlightsOf(data[1])) = 1
    /\ Len(snapshots) = prev.snaps0 + 2
    /\ \A i \in (prev.snaps0 + 1)..Len(snapshots) :
         \A f \in FlightsOf(data[1]) : snapshots[i].flight_id = f.id

C1_Witness == SameListingTwice /\ prev.snaps0 > 0

\* C2: every Snapshot that is inserted for a listing carries the id that the
\* upsert of the Flight of that listing returned; when the upsert returns no
\* row, no Snapshot is inserted for the listing.
C2_SnapshotOfReturnedFlight ==
  ~IsNone(last.snap) =>
    /\ ~IsNone(last.returned)
    /\ Val(last.snap).flight_id = Val(last.returned)

IsoDates == {Iso_Jan5, Iso_Jan6}

\* the loop stands at a row whose date does not parse
AtUnparseable ==
  /\ pc = "save_loop"
  /\ idx <= Len(clean_data)
  /\ ~Parses(clean_data[idx])

\* a run that ended without a failing data-store call has a Flight and a
\* Snapshot of this run for exactly the deduplicated rows whose date parses
ParseableRowsPersisted ==
  (pc = "done" /\ storeOK) =>
    /\ \A i \in 1..Len(clean_data) : Parses(clean_data[i]) <=> i \in persisted
    /\ \A i \in persisted : FlightsOf(clean_data[i]) # {}
    /\ Len(snapshots) = snaps0 + Cardinality(persisted)

\* C3: a listing whose date does not parse causes neither an upsert nor an
\* insert and the loop goes on with the next listing; every other
\* deduplicated listing of the batch is persisted; no Flight ever has a
\* departure_date that is not a parsed date.
C3_UnparseableSkipped ==
  /\ [](\A f \in flights : f.departure_date \in IsoDates)
  /\ []ParseableRowsPersisted
  /\ [][AtUnparseable =>
          /\ flights' = flights
          /\ snapshots' = snapshots
          /\ pc' = "save_loop"
          /\ idx' = idx + 1]_vars

C3_Witness ==
  /\ pc = "done"
  /\ storeOK
  /\ persisted # {}
  /\ \E i \in 1..Len(clean_data) :
       /\ ~Parses(clean_data[i])
       /\ \E j \in persisted : j > i

\* the (competitor, route text, date text) signature of a listing
Triple(item) == <<item.competitor, item.route, item.date>>

\* C4: after the deduplication clean_data holds exactly one record for every
\* distinct (competitor, route text, date text) of the batch, and it is the
\* last listing of the batch with that signature.
C4_OnePerSignature ==
  pc = "save_loop" =>
    \A i \in 1..Len(data) :
      LET same == {j \in 1..Len(data) : Triple(data[j]) = Triple(data[i])}
          latest == CHOOSE j \in same : \A k \in same : k <= j
          kept == {j \in 1..Len(clean_data) :
                     Triple(clean_data[j]) = Triple(data[i])}
      IN /\ Cardinality(kept) = 1
         /\ \A j \in kept : clean_data[j] = data[latest]

\* C8: when a data-store call fails for one listing, the listings after it
\* whose date parses are still upserted and get their Snapshots.
C8_FailureIsolated ==
  (pc = "crashed" /\ last.kind \in {"upsert_raises", "insert_raises"}) =>
    \A i \in (idx + 1)..Len(clean_data) :
      Parses(clean_data[i]) => i \in persisted

(***************************************************************************)
(* Properties of a run of main                                             *)
(***************************************************************************)
Range(q) == {q[i] : i \in 1..Len(q)}

\* the listings a discovery path has produced so far
Produced ==
  Range(bark_data) \cup Range(pending) \cup Range(http_flights)
    \cup Range(ajax_flights) \cup Range(fallback_flights)

K9Produced == {l \in Produced : l.competitor = K9Jets}

\* the Snapshots this run has written
Written == {snapshots[i] : i \in (snaps0 + 1)..Len(snapshots)}

StatusSeatsOK(seats, status) ==
  /\ status = "Sold Out" => (IsNone(seats) \/ Val(seats) = 0)
  /\ (~IsNone(seats) /\ Val(seats) > 0) => status = "Available"

\* C5: every listing of every discovery path and every Snapshot that is
\* written has no seats or zero seats when its status is Sold Out, and the
\* status Available when its seats are positive.
C5_StatusSeats ==
  /\ \A l \in Produced : StatusSeatsOK(l.seats, l.status)
  /\ \A n \in Written : StatusSeatsOK(n.seats_available, n.status)

\* seats and status as the status derivation of the specification gives them
\* for a stock text
Derived(seats_text) ==
  IF Contains(Lower(seats_text), SoldOutText)
    THEN [seats |-> None, status |-> "Sold Out"]
    ELSE IF clean_seats(seats_text) > 0
           THEN [seats |-> Some(clean_seats(seats_text)), status |-> "Available"]
           ELSE [seats |-> None, status |-> "Available"]

\* C6: the extractor of the list view and the extractor of the product page
\* both give (Sold Out, no seats) for a stock text with "sold out", else
\* (Available, n) for a positive count n, else (Available, no seats).
C6_StatusDerivation ==
  \A l \in Range(pending) \cup Range(http_flights) :
    LET d == Derived(TextOr(l.stock, <<>>))
    IN l.seats = d.seats /\ l.status = d.status

\* the stock text of the card is missing or has no seat count, and it does
\* not say sold out
NoCount(stock) ==
  LET text == TextOr(stock, <<>>)
  IN clean_seats(text) = 0 /\ ~Contains(Lower(text), SoldOutText)

\* C7: a K9 card without a parseable seat count whose stock text does not
\* say sold out is Available without seats in the listing of every strategy,
\* and the Snapshot written for it is not Sold Out.
C7_PermissiveBias ==
  /\ \A l \in K9Produced :
       NoCount(l.stock) => (l.status = "Available" /\ IsNone(l.seats))
  /\ (~IsNone(last.snap) /\ Val(last.item).competitor = K9Jets
        /\ NoCount(Val(last.item).stock))
       => Val(last.snap).status # "Sold Out"

\* the run has come to save_to_supabase
SaveReached ==
  \/ pc \in {"save", "save_loop", "done"}
  \/ pc = "crashed" /\ last.kind # "none"

\* C9: a failure in one unit of discovery never aborts the run, and
\* save_to_supabase gets every listing that was collected.
C9_DiscoveryIsolated ==
  /\ pc = "crashed" => SaveReached
  /\ pc = "save" => data = bark_data \o k9_data

\* scrape_k9_jets_http has returned
HttpReturned ==
  pc \notin {"import", "raised", "bark", "http_get", "http_post", "http_card"}

\* C10: the HTTP strategy runs before the hybrid strategy; the hybrid
\* strategy runs exactly when the HTTP strategy returned no listing; the K9
\* data that is persisted after a non-empty HTTP result is that result.
C10_HttpFirst ==
  /\ ~HttpReturned =>
       /\ "hybrid" \notin ran
       /\ ajax_flights = <<>>
       /\ fallback_flights = <<>>
  /\ pc \in {"ajax_start", "ajax_origin", "fallback"} => "hybrid" \in ran
  /\ HttpReturned =>
       /\ "http" \in ran
       /\ "hybrid" \in ran <=> http_flights = <<>>
  /\ (SaveReached /\ http_flights # <<>>) =>
       /\ k9_data = http_flights
       /\ data = bark_data \o http_flights

C10_Witness ==
  /\ pc = "done"
  /\ http_flights # <<>>
  /\ bark_data # <<>>
  /\ Cardinality(Written) >= 2

(***************************************************************************)
(* Properties of scrape_k9_jets                                            *)
(***************************************************************************)
\* C11: the scroll fallback is invoked only when the AJAX strategy returned
\* fewer listings than the threshold; with a count at or above the
\* threshold the AJAX result is what scrape_k9_jets returns.
C11_FallbackThreshold ==
  /\ pc = "fallback" => Len(ajax_flights) < AjaxLimit
  /\ (pc = "save" /\ Len(ajax_flights) >= AjaxLimit) =>
       /\ k9_data = ajax_flights
       /\ fallback_flights = <<>>

(***************************************************************************)
(* Properties of scrape_k9_jets_http                                       *)
(***************************************************************************)
\* the fields of a listing the refinement never touches
Untouched(l) ==
  <<l.competitor, l.date, l.route, l.operator, l.departure_time, l.url>>

\* a listing whose product page was fetched has the seats and the status of
\* that page, and its price unless the page has none that parses
RefinedFromPage(g) ==
  LET before == Val(g.refined).before
      out == DetailOut(Val(g.refined).page)
  IN /\ ~IsNone(before.url)
     /\ g.seats = out.seats
     /\ g.status = out.status
     /\ g.price = IF IsNone(out.price) THEN before.price ELSE out.price
     /\ Untouched(g) = Untouched(before)

\* the HTTP strategy handles a listing and the fetch of its product page
\* fails
DetailFetchFails ==
  /\ pc = "http_card"
  /\ ~IsNone(Head(pending).url)
  /\ faults' # faults

\* C12: a listing whose product page is fetched gets the price, seats and
\* status of that page (the list-view price stays only when the page has no
\* price that parses); a listing whose fetch fails keeps the price, seats
\* and status of the list view.
C12_DetailRefinement ==
  /\ [](\A i \in 1..Len(http_flights) :
          ~IsNone(http_flights[i].refined) =>
            RefinedFromPage(http_flights[i]))
  /\ [][(DetailFetchFails /\ Len(http_flights') > Len(http_flights)) =>
         LET f == Head(pending)
             g == http_flights'[Len(http_flights')]
         IN /\ g.price = f.price
            /\ g.seats = f.seats
            /\ g.status = f.status
            /\ IsNone(g.refined)]_vars
  /\ [][(pc = "http_card" /\ ~IsNone(Head(pending).url) /\ faults' = faults
          /\ Len(http_flights') > Len(http_flights)) =>
         ~IsNone(http_flights'[Len(http_flights')].refined)]_vars

\* a refined listing that got another price and other seats than the list
\* view showed
C12_Witness ==
  \E i \in 1..Len(http_flights) :
    LET g == http_flights[i]
    IN /\ ~IsNone(g.refined)
       /\ g.price = DetailOut(Val(g.refined).page).price
       /\ g.price # Val(g.refined).before.price
       /\ g.seats # Val(g.refined).before.seats

(***************************************************************************)
(* Properties of the K9 extractors                                         *)
(***************************************************************************)
\* the price fragments a K9 listing has its price from: those of the
\* product page when that page has a price that parses, else those of the
\* card
PriceSource(l) ==
  IF ~IsNone(l.refined) /\ Candidates(Val(l.refined).page.prices) # <<>>
    THEN Val(l.refined).page.prices
    ELSE l.fragments

\* C13: the price of a K9 listing whose card or product page holds several
\* price fragments is the maximum of the values of the fragments that
\* parse, and is absent only when none parses.
C13_MaximumPrice ==
  \A l \in Range(http_flights) \cup Range(ajax_flights)
           \cup Range(fallback_flights) :
    Len(PriceSource(l)) >= 2 => l.price = MaxPrice(PriceSource(l))

\* the values of the price fragments, each with its tags stripped and its
\* entities unescaped before it is parsed
RECURSIVE UnescapedCandidates(_)
UnescapedCandidates(fragments) ==
  IF fragments = <<>>
    THEN <<>>
    ELSE clean_price(Unescape(strip_html(Head(fragments))))
           \o UnescapedCandidates(Tail(fragments))

\* C14: a text fragment has its tags stripped and its entities unescaped
\* before it is parsed: the price a listing gets from a product page is the
\* one its unescaped fragments give, so that no digit of a numeric entity
\* is part of it.
C14_UnescapeBeforeNormalize ==
  \A l \in Range(http_flights) :
    ~IsNone(l.refined) =>
      LET out == DetailOut(Val(l.refined).page)
      IN ~IsNone(out.price) =>
           l.price = MaxOf(UnescapedCandidates(Val(l.refined).page.prices))

(***************************************************************************)
(* Properties of the normalizers                                           *)
(***************************************************************************)
\* the text without the characters that are neither a digit nor "."
RECURSIVE DeleteOthers(_)
DeleteOthers(s) ==
  IF s = <<>>
    THEN <<>>
    ELSE (IF Head(s) \in Digits \cup {"."} THEN <<Head(s)>> ELSE <<>>)
           \o DeleteOthers(Tail(s))

\* t is a decimal: digits with at most one "."
IsDecimal(t) ==
  /\ \E i \in 1..Len(t) : t[i] \in Digits
  /\ Cardinality({i \in 1..Len(t) : t[i] = "."}) <= 1

\* the digits without the zeros at their end
RECURSIVE TrimZeros(_)
TrimZeros(ds) ==
  IF ds # <<>> /\ ds[Len(ds)] = "0"
    THEN TrimZeros(SubSeq(ds, 1, Len(ds) - 1))
    ELSE ds

\* the float v = <<mantissa, scale>> is the value of the decimal t
IsValueOf(v, t) ==
  LET dot == {i \in 1..Len(t) : t[i] = "."}
      p == IF dot = {} THEN Len(t) + 1 ELSE CHOOSE i \in dot : TRUE
      whole == SubSeq(t, 1, p - 1)
      frac == TrimZeros(SubSeq(t, p + 1, Len(t)))
  IN v = <<DigitsToInt(whole \o frac), Len(frac)>>

Text_1234_50 == <<"$", "1", ",", "2", "3", "4", ".", "5", "0">>

\* C15: clean_price returns the value of the decimal that is left when
\* every character other than a digit or "." is deleted, and nothing when
\* the text is empty or what is left is not a decimal; "$1,234.50" gives
\* 1234.50.
C15_CleanPrice ==
  ret.fn = "clean_price" =>
    LET t == DeleteOthers(arg)
    IN /\ IF arg = <<>> \/ ~IsDecimal(t)
            THEN IsNone(ret.value)
            ELSE ~IsNone(ret.value) /\ IsValueOf(Val(ret.value), t)
       /\ arg = Text_1234_50 => ret.value = Some(<<12345, 1>>)

C15_Witness ==
  /\ ret.fn = "clean_price"
  /\ arg = Text_1234_50
  /\ ret.value = Some(<<12345, 1>>)

\* positions a..b hold the leftmost maximal run of digits of s
IsFirstRun(s, a, b) ==
  /\ \A i \in a..b : s[i] \in Digits
  /\ \A i \in 1..(a - 1) : s[i] \notin Digits
  /\ b = Len(s) \/ s[b + 1] \notin Digits

Text_6Seats == <<"6", " ", "S", "e", "a", "t", "s", " ", "A", "v", "a", "i", "l", "a", "b", "l", "e">>
Text_12Seats6 == <<"1", "2", " ", "S", "e", "a", "t", "s", " ", "A", "v", "a", "i", "l", "a", "b", "l", "e", "6">>

\* C16: clean_seats returns the number written by the leftmost maximal run
\* of digits of the text, and 0 when the text has no digit; "6 Seats
\* Available" gives 6 and "Sold Out" gives 0.
C16_CleanSeats ==
  ret.fn = "clean_seats" =>
    /\ IF \E i \in 1..Len(arg) : arg[i] \in Digits
         THEN \E a \in 1..Len(arg), b \in 1..Len(arg) :
                /\ a <= b
                /\ IsFirstRun(arg, a, b)
                /\ ret.value = DigitsToInt(SubSeq(arg, a, b))
         ELSE ret.value = 0
    /\ arg = Text_6Seats => ret.value = 6
    /\ arg = Stock_SoldOut => ret.value = 0

\* a text with two runs of digits, the first of two digits
C16_Witness ==
  /\ ret.fn = "clean_seats"
  /\ arg = Text_12Seats6
  /\ ret.value = 12

\* the word "to", in any case, stands at position j of txt with white space
\* on both sides
WordToAt(txt, j) ==
  /\ j - 1 >= 1
  /\ j + 2 <= Len(txt)
  /\ Lower(SubSeq(txt, j, j + 1)) = <<"t", "o">>
  /\ IsSpace(txt[j - 1]) /\ IsSpace(txt[j + 2])

\* the non-empty tokens the k-th separator cuts txt into
TokensOf(txt, k) == NonEmptyStripped(SplitOn(txt, Separators[k]))

\* the k-th separator yields at least two non-empty tokens
Usable(txt, k) == Len(TokensOf(txt, k)) >= 2

Text_AdashCtoB == <<"A", " ", "-", " ", "C", " ", "t", "o", " ", "B">>

\* C17: a route with the word "to" as separator is split at the first such
\* "to"; any other route is split by the first of " - ", " ndash ",
\* " mdash ", "->", "rarr", in that order, that yields two non-empty tokens
\* or more, into its first and its last token; "to" comes before every dash
\* and arrow.
C17_SplitRoutePrecedence ==
  ret.fn = "split_route" =>
    LET txt == Strip(arg)
        tos == {j \in 1..Len(txt) : WordToAt(txt, j)}
        seps == {k \in 1..Len(Separators) : Usable(txt, k)}
    IN /\ Separators = << <<" ", "-", " ">>, <<" ", "ndash", " ">>,
                          <<" ", "mdash", " ">>, <<"-", ">">>, <<"rarr">> >>
       /\ tos # {} =>
            LET j == CHOOSE m \in tos : \A n \in tos : m <= n
            IN ret.value = <<Strip(SubSeq(txt, 1, j - 1)),
                             Strip(SubSeq(txt, j + 2, Len(txt)))>>
       /\ (tos = {} /\ seps # {}) =>
            LET k == CHOOSE m \in seps : \A n \in seps : m <= n
                tokens == TokensOf(txt, k)
            IN ret.value = <<tokens[1], tokens[Len(tokens)]>>

\* a route with a dash before the word "to", split at the "to"
C17_Witness ==
  /\ ret.fn = "split_route"
  /\ arg = Text_AdashCtoB
  /\ ret.value = <<<<"A", " ", "-", " ", "C">>, <<"B">>>>

\* split_route finds no separator to split the text at
Unsplit(txt) ==
  /\ \A j \in 1..Len(txt) : ~WordToAt(txt, j)
  /\ \A k \in 1..Len(Separators) : ~Usable(txt, k)

\* C18: a route without a "to" and without a dash or arrow that yields two
\* non-empty tokens comes back as the whole trimmed text for origin and
\* destination, which the caller sees as origin = destination = the text it
\* passed; a route that was split never comes back like that.
C18_SplitRouteFallback ==
  ret.fn = "split_route" =>
    IF Unsplit(Strip(arg))
      THEN /\ ret.value = <<Strip(arg), Strip(arg)>>
           /\ ret.value[1] = arg /\ ret.value[2] = arg
      ELSE ~(ret.value[1] = arg /\ ret.value[2] = arg)

(***************************************************************************)
(* Properties of the heading loop                                          *)
(***************************************************************************)
StartsWith(text, prefix) == MatchAt(text, prefix, 1)

Prefix_Operator == <<"O", "p", "e", "r", "a", "t", "o", "r", ":">>
Prefix_DepartureTime == <<"D", "e", "p", "a", "r", "t", "u", "r", "e", " ", "T", "i", "m", "e", ":">>

\* the text after the prefix in the first of the lines that starts with the
\* prefix, None when no line starts with it
FirstAfter(lines, prefix) ==
  LET hits == {i \in 1..Len(lines) : StartsWith(lines[i], prefix)}
  IN IF hits = {}
       THEN None
       ELSE LET i == CHOOSE m \in hits : \A n \in hits : m <= n
            IN Some(Strip(From(lines[i], Len(prefix) + 1)))

\* a value that was found and is not empty
Found(o) == IF o = Some(<<>>) THEN None ELSE o

\* C19: the operator of a card is the text after "Operator:" in the first
\* heading line that starts with it, "Unknown" when there is none (or the
\* text is empty); the departure time is the text after "Departure Time:"
\* in the first heading line that starts with it; later lines change
\* neither.
C19_FirstHeadingWins ==
  ret.fn = "headings" =>
    /\ ret.value.operator =
         TextOr(Found(FirstAfter(arg, Prefix_Operator)), Unknown)
    /\ ret.value.departure_time =
         Found(FirstAfter(arg, Prefix_DepartureTime))

(***************************************************************************)
(* Properties of the table flight_snapshots                                *)
(***************************************************************************)
\* the positions of clean_data whose date parses
ParseablePositions == {i \in 1..Len(clean_data) : Parses(clean_data[i])}

\* C20: no step of save_to_supabase changes or removes a row of
\* flight_snapshots, so their number never goes down and every earlier
\* Snapshot keeps its values; a run whose data-store calls succeed adds one
\* row for every deduplicated listing whose date parses.
C20_SnapshotsAppendOnly ==
  /\ [][/\ Len(snapshots') >= Len(snapshots)
         /\ SubSeq(snapshots', 1, Len(snapshots)) = snapshots]_vars
  /\ []((pc = "done" /\ storeOK) =>
          /\ clean_data = Deduplicate(data)
          /\ persisted = ParseablePositions
          /\ Len(snapshots) = snaps0 + Cardinality(ParseablePositions))

\* a second run has added a Snapshot with another price to a Flight that
\* had one from the first run
C20_Witness ==
  /\ pc = "done"
  /\ run >= 2
  /\ storeOK
  /\ \E i \in 1..snaps0, j \in (snaps0 + 1)..Len(snapshots) :
       /\ snapshots[i].flight_id = snapshots[j].flight_id
       /\ snapshots[i].price # snapshots[j].price


(***************************************************************************)
(* Properties of the module configuration                                  *)
(***************************************************************************)
\* no strategy has started, no site has served a card, no request has failed
\* and the data store is as it was when the script started
NoWorkDone ==
  /\ ran = {}
  /\ served = 0
  /\ faults = 0
  /\ bark_data = <<>> /\ http_flights = <<>> /\ ajax_flights = <<>>
  /\ fallback_flights = <<>> /\ k9_data = <<>> /\ data = <<>>
  /\ last = NoStep
  /\ persisted = {}
  /\ \/ flights = {} /\ snapshots = <<>> /\ nextId = 1
     \/ flights = UsedFlights /\ snapshots = UsedSnapshots /\ nextId = 2

\* C21: when SUPABASE_URL or SUPABASE_KEY is absent from the environment, the
\* script raises at startup: the run is either about to raise or has raised,
\* no page has been visited, no HTTP request sent, no data-store call made
\* and no row persisted.
C21_ConfigurationFailure ==
  (IsNone(env.SUPABASE_URL) \/ IsNone(env.SUPABASE_KEY))
    => pc \in {"import", "raised"} /\ NoWorkDone

C21_Witness ==
  /\ pc = "raised"
  /\ IsNone(env.SUPABASE_KEY)
  /\ ~IsNone(env.SUPABASE_URL)
  /\ flights = UsedFlights

(***************************************************************************)
(* Properties of normalize_airport                                         *)
(***************************************************************************)
IsKey(text) == \E kv \in AIRPORT_MAPPING : kv[1] = text

Text_VanNuysCA == <<"V", "a", "n", " ", "N", "u", "y", "s", ",", " ", "C", "A">>

Text_LosAngelesUS == <<"L", "o", "s", " ", "A", "n", "g", "e", "l", "e", "s", ",", " ", "U", "S">>

Label_VanNuys ==
  <<"L", "o", "s", " ", "A", "n", "g", "e", "l", "e", "s", " ", "(", "V",
    "a", "n", " ", "N", "u", "y", "s", ")">>

AirportCall == pc = "returned" /\ ret.fn = "normalize_airport"

\* the label of a key, and one label for "Van Nuys, CA" and "Los Angeles, US"
MappedKeys ==
  /\ IsKey(Strip(arg))
       => \E kv \in AIRPORT_MAPPING :
            kv[1] = Strip(arg) /\ ret.value = Some(kv[2])
  /\ Strip(arg) \in {Text_VanNuysCA, Text_LosAngelesUS}
       => ret.value = Some(Label_VanNuys)

\* C22, as claimed: normalize_airport returns the mapped label for every name
\* that is a key of AIRPORT_MAPPING after trimming, and the trimmed name for
\* every non-empty name that is not a key; "Van Nuys, CA" and
\* "Los Angeles, US" get the same label.
C22_NormalizeAirport ==
  AirportCall /\ arg # <<>>
    => /\ MappedKeys
       /\ ~IsKey(Strip(arg)) => ret.value = Some(Strip(arg))

\* C22, amended: as claimed, except that a name that is "0" after trimming is
\* rejected: normalize_airport returns None for it.
C22_NormalizeAirportExceptZero ==
  AirportCall /\ arg # <<>>
    => /\ MappedKeys
       /\ ~IsKey(Strip(arg)) /\ Strip(arg) # <<"0">>
            => ret.value = Some(Strip(arg))
       /\ Strip(arg) = <<"0">> => ret.value = None

C22_Witness ==
  /\ AirportCall
  /\ arg = <<" ">> \o Text_LosAngelesUS
  /\ ret.value = Some(Label_VanNuys)

(***************************************************************************)
(* Properties of the duplicate filters of the K9 strategies                *)
(***************************************************************************)
\* the values of a listing that are scraped from the site
ScrapedValues(f) ==
  [date |-> f.date, route |-> f.route, operator |-> f.operator,
   price |-> f.price, seats |-> f.seats, status |-> f.status,
   departure_time |-> f.departure_time]

\* what lines 655-675 can make of the flight f of the list view
Outcomes(f, origin_label) ==
  LET g == RepairRoute(f, origin_label)
  IN {g} \cup {Refine(g, DetailOut(page)) : page \in DetailPages}

\* C23: last-wins through the whole run: once scrape_k9_jets_http has handled
\* a card, the listing in all_flights under the card's key carries the
\* values of that card, also when an earlier card had the same key.
C23_RunWideLastWins ==
  [][pc = "http_card"
       => \E f \in Range(http_flights') :
            \E o \in Outcomes(Head(pending), origins[unit].label) :
              /\ HttpKey(f) = HttpKey(o)
              /\ ScrapedValues(f) = ScrapedValues(o)]_vars

(***************************************************************************)
(* Properties of the scroll loop                                           *)
(***************************************************************************)
\* the number of elements at the end of h that equal their predecessor
RECURSIVE TrailingEqual(_)
TrailingEqual(h) ==
  IF Len(h) < 2 \/ h[Len(h)] # h[Len(h) - 1]
    THEN 0
    ELSE 1 + TrailingEqual(SubSeq(h, 1, Len(h) - 1))

\* the counts read so far, after the value previous_count starts with
FromZero == IF scrolls <= Strikes THEN <<0>> \o observed ELSE observed

Scrolled == pc \in {"scroll", "scroll_end"} /\ scrolls >= 1

\* C24, as claimed: the loop stops early exactly at the first iteration at
\* which the count has equalled the previously observed count on 3
\* consecutive iterations, any change of the count resets the strike counter
\* to zero, and no more than 50 iterations are made.
C24_ThreeStrikes ==
  /\ scrolls <= max_scrolls
  /\ pc = "scroll_break" => TrailingEqual(observed) >= Strikes
  /\ Scrolled => TrailingEqual(observed) < Strikes
  /\ Scrolled /\ TrailingEqual(observed) = 0 /\ Len(observed) >= 2
       => no_change_count = 0

\* the same, with the count before the first iteration taken to be 0
StrikesFromZero ==
  /\ scrolls <= max_scrolls
  /\ pc = "scroll_break" => TrailingEqual(FromZero) >= Strikes
  /\ Scrolled => TrailingEqual(FromZero) < Strikes
  /\ Scrolled => no_change_count = TrailingEqual(FromZero)

\* C24, amended: the loop ends after at most 50 iterations; it stops early
\* exactly at the first iteration at which the count has equalled the value
\* of previous_count (the count of the iteration before, and 0 at the first
\* iteration) on 3 consecutive iterations; any change resets the counter.
C24_ThreeStrikesFromZero ==
  []StrikesFromZero /\ <>(pc \in {"scroll_break", "scroll_end"})

C24_Witness ==
  /\ pc = "scroll_break"
  /\ scrolls = 5
  /\ observed = <<1, 1, 1, 1>>

C24_WitnessExhausted == pc = "scroll_end" /\ scrolls = max_scrolls

(***************************************************************************)
(* Properties of the Snapshots of one run                                  *)
(***************************************************************************)
\* C25: within one run of save_to_supabase at most one Snapshot is inserted
\* per Flight: no two Snapshots of the run reference the same Flight row.
C25_OneSnapshotPerFlight ==
  \A i, j \in (snaps0 + 1)..Len(snapshots) :
    i # j => snapshots[i].flight_id # snapshots[j].flight_id

(***************************************************************************)
(* Properties of the route repair of scrape_k9_jets_http                   *)
(***************************************************************************)
RepairCall == pc = "returned" /\ ret.fn = "repair_route"

\* line 657: the route that is tested
ScrapedRoute == IF arg = <<>> THEN UnknownRoute ELSE arg

\* C26: the route repair prefixes the origin label only to routes that
\* split_route cannot split: a scraped route that split_route splits into two
\* different parts is left unchanged, and the origin that split_route
\* computes from the final route holds no "->" and is the scraped origin or
\* the origin label of the dropdown.
C26_RouteRepair ==
  RepairCall =>
    LET scraped == split_route(ScrapedRoute)
        final == split_route(ret.value.route)
    IN /\ scraped[1] # scraped[2] => ret.value.route = arg
       /\ ~Contains(final[1], <<"-", ">">>)
       /\ final[1] \in {scraped[1], ret.value.origin_label}

====
